---------------------------- MODULE Spec2Model ----------------------------
(***************************************************************************)
(* Node graph, render pipeline and tool lifecycle of the nodal portfolio.  *)
(*                                                                         *)
(* The program is single threaded.  One macrotask (a click, a timer tick,  *)
(* an animation frame, an image load event) runs to completion and is one  *)
(* action of the model; the continuation of an `await` inside              *)
(* RenderPipeline.render is a microtask, and all pending microtasks run    *)
(* before the next macrotask starts.  Synchronous code is written as        *)
(* operators that take the whole program state as a record and return the  *)
(* state after the call.                                                   *)
(***************************************************************************)
EXTENDS Integers, Sequences, FiniteSets, TLC

\* ------------------------------------------------------------------ bounds
\* number of tool nodes the user creates in one run (toolNodeCounter cap)
MaxTools == 2
\* number of live setInterval timers one tool may hold before the model stops
\* starting more
MaxTimers == 2
\* number of loadImage requests that may be in flight at the same time
MaxPending == 2
\* number of pixels of the pipeline's canvas
CanvasPixels == 50
\* number of pixels of the buffers given to InvertTool.process on its own
MaxPixels == 2
\* number of callbacks registered for one event
MaxListeners == 3
\* relaxations of one stick in a row
MaxRelax == 3
\* physics operations on one figure in a row
MaxSteps == 2
\* the finest fraction of a pixel from which a physics operation is taken
MaxDenominator == 25
\* insertions into the line-wrap cache
MaxInserts == 103

\* ------------------------------------------------------------- identifiers
WorkId == "work"
ViewerId == "viewer"
ToolIdPool == <<"tool-0", "tool-1", "tool-2", "tool-3", "tool-4">>
ToolNodeId(n) == ToolIdPool[n + 1]
ToolIds == {ToolIdPool[i] : i \in 1..Len(ToolIdPool)}
NodeIds == {WorkId, ViewerId} \cup ToolIds
Null == "null"

Range(f) == {f[i] : i \in DOMAIN f}

\* ------------------------------------------------- Map (insertion ordered)
\* A JavaScript Map is a sequence of <<key, value>> entries in insertion
\* order; set() on a present key keeps its position.
MapHas(m, k) == \E i \in DOMAIN m : m[i][1] = k
MapGet(m, k) == m[CHOOSE i \in DOMAIN m : m[i][1] = k][2]
MapSet(m, k, v) ==
  IF MapHas(m, k)
  THEN [i \in DOMAIN m |-> IF m[i][1] = k THEN <<k, v>> ELSE m[i]]
  ELSE Append(m, <<k, v>>)
MapDelete(m, k) == SelectSeq(m, LAMBDA e : e[1] # k)
MapKeys(m) == [i \in DOMAIN m |-> m[i][1]]


\* ----------------------------------------------------------------- catalog
\* works_manifest.json after a successful load: one category of two
\* single-image items; item "A" has an info text file, item "B" has none.
Manifest == <<"A", "B">>
Items == Range(Manifest)
\* A second catalog, of composite items: folder "F" of three images and
\* folder "G" of two.  A folder item has no path of its own; its images have.
Folders == <<"F", "G">>
IsFolder(item) == item \in Range(Folders)
Images(item) ==
  IF item = "F" THEN <<"F1", "F2", "F3">>
  ELSE IF item = "G" THEN <<"G1", "G2">>
  ELSE <<>>
Undefined == "undefined"
ItemPath(item) == IF IsFolder(item) THEN Undefined ELSE item
HasInfoPath(item) == item = "A"
ToolKinds == {"invert", "slideshow", "info", "ragdoll", "smudge"}

\* ------------------------------------------------------------------- state
\* no call of hashImageData is running
NoCall == [data |-> <<>>, step |-> 0, i |-> 0, hash |-> <<0, 0>>,
           returned |-> TRUE, pass |-> 0]

\* the canvas element has not been sized by a render() yet
NoCanvas == [width |-> 0, height |-> 0]

VARIABLES
  nodes,             \* StateManager.state.nodes: Map id -> node object
  connections,       \* StateManager.state.connections: Map fromId -> toId
  selectedItem,      \* StateManager.state.selectedItem
  manifest,          \* StateManager.state.manifest: the categories, each a sequence of items
  listeners,         \* EventEmitter.listeners.get(event), for an event the application does not listen to
  calls,             \* history: the callbacks invoked by the last emit() of that event, in order
  emblems,           \* ConnectionManager.emblems: the <<fromId, toId>> captured by each click handler
  mode,              \* ViewMode.mode
  currentItem,       \* ViewerNode.currentItem
  currentImageIndex, \* ViewerNode.currentImageIndex
  display,           \* what the viewer shows: "empty", "image" (the <img>) or "canvas"
  toolNodes,         \* PortfolioApp.toolNodes (ids, insertion order)
  toolNodeCounter,   \* PortfolioApp.toolNodeCounter
  tools,             \* the Tool object created for each tool node id
  timers,            \* host: number of live setInterval timers started by each tool
  frames,            \* host: number of pending requestAnimationFrame callbacks of each tool
  toolMap,           \* RenderPipeline.toolMap (node ids, insertion order)
  sourceImage,       \* RenderPipeline.sourceImage
  currentImageData,  \* RenderPipeline.currentImageData
  surface,           \* pixels of RenderPipeline.canvas
  isConnected,       \* RenderPipeline.canvas exists and is in the document
  jobs,              \* microtask queue: render() invocations suspended at an await
  pending,           \* Image loads in flight, oldest first
  fetches,           \* InfoTool fetches in flight: <<tool id, item>>
  raised,            \* the handlers out of which an exception has escaped
  points,            \* Ragdoll.points
  sticks,            \* Ragdoll.sticks
  cache,             \* CanvasRenderer.cache: Map cacheKey -> lines
  canvas,            \* width and height of RenderPipeline.canvas
  dragging,          \* Ragdoll.dragging: index into points, 0 for null
  hashing,           \* the call of SmudgeTool.hashImageData that is running
  lastOp,            \* history: the macrotask that ran last
  lastCompleted      \* history: image of the load that completed last

vars == <<nodes, connections, selectedItem, manifest, listeners, calls,
          emblems, mode,
          currentItem, currentImageIndex, display,
          toolNodes, toolNodeCounter, tools, timers, frames, toolMap,
          sourceImage, currentImageData, surface, isConnected, jobs, pending,
          fetches, raised, points, sticks, cache, canvas, dragging,
          hashing, lastOp, lastCompleted>>

\* the program state as one record, threaded through the synchronous code
Cur ==
  [nodes |-> nodes, connections |-> connections, selectedItem |-> selectedItem,
   manifest |-> manifest, currentImageIndex |-> currentImageIndex,
   listeners |-> listeners, calls |-> calls,
   emblems |-> emblems, mode |-> mode, currentItem |-> currentItem,
   display |-> display, toolNodes |-> toolNodes,
   toolNodeCounter |-> toolNodeCounter, tools |-> tools, timers |-> timers,
   frames |-> frames, toolMap |-> toolMap, sourceImage |-> sourceImage,
   currentImageData |-> currentImageData, surface |-> surface,
   isConnected |-> isConnected, jobs |-> jobs,
   pending |-> pending, fetches |-> fetches, raised |-> raised,
   points |-> points, sticks |-> sticks, cache |-> cache, canvas |-> canvas,
   dragging |-> dragging, hashing |-> hashing,
   lastCompleted |-> lastCompleted,
   fault |-> Null,   \* environment: the tool whose process() throws in this task
   chain |-> <<Null>>,  \* history: orderedTools of the last render() of this task
   emitted |-> <<>>]    \* history: the events StateManager has emitted in this task

\* the result s0 of the task is bound by \E, so that it is evaluated once
Commit(s0, op) ==
  \E s \in {s0} :
  /\ nodes' = s.nodes
  /\ connections' = s.connections
  /\ selectedItem' = s.selectedItem
  /\ manifest' = s.manifest
  /\ listeners' = s.listeners
  /\ calls' = s.calls
  /\ currentImageIndex' = s.currentImageIndex
  /\ emblems' = s.emblems
  /\ mode' = s.mode
  /\ currentItem' = s.currentItem
  /\ display' = s.display
  /\ toolNodes' = s.toolNodes
  /\ toolNodeCounter' = s.toolNodeCounter
  /\ tools' = s.tools
  /\ timers' = s.timers
  /\ frames' = s.frames
  /\ toolMap' = s.toolMap
  /\ sourceImage' = s.sourceImage
  /\ currentImageData' = s.currentImageData
  /\ surface' = s.surface
  /\ isConnected' = s.isConnected
  /\ jobs' = s.jobs
  /\ pending' = s.pending
  /\ fetches' = s.fetches
  /\ raised' = s.raised
  /\ points' = s.points
  /\ sticks' = s.sticks
  /\ cache' = s.cache
  /\ canvas' = s.canvas
  /\ dragging' = s.dragging
  /\ hashing' = s.hashing
  /\ lastCompleted' = s.lastCompleted
  /\ lastOp' = [op EXCEPT !.chain = s.chain, !.emitted = s.emitted]

\* history record of the last macrotask; pre = connections before it ran,
\* chain = the tools resolved by its last render(), <<Null>> if it had none
NoChain == <<Null>>
Op(name, a, b, pre) ==
  [op |-> name, a |-> a, b |-> b, pre |-> pre, chain |-> NoChain,
   emitted |-> <<>>]

\* a Tool object that has not been constructed
NoTool ==
  [kind |-> "none", active |-> FALSE, viewerNode |-> FALSE,
   interval |-> FALSE, items |-> <<>>, currentItemIndex |-> 0,
   currentImageIndex |-> 0,
   ragdoll |-> FALSE, animationFrame |-> Null, canvas |-> FALSE,
   lastImageDataHash |-> <<>>, loading |-> FALSE, infoText |-> Null,
   brushPaint |-> FALSE, isSmudging |-> FALSE,
   \* RagdollTool.isMouseDown; subscribed: the handlers of
   \* setupMouseInteraction are listeners of the pipeline's canvas
   isMouseDown |-> FALSE, subscribed |-> FALSE,
   \* the tool's canvas is a canvas the pipeline has replaced, and its pixels
   detached |-> FALSE, pixels |-> <<>>,
   \* history: the imageData of the last call of SmudgeTool.process
   lastImageData |-> <<>>]

\* ------------------------------------------------------- ConnectionManager
\* updateAll: drop the emblems of sources that have no connection, then
\* create an emblem for each connection whose source has none; the click
\* handler of a new emblem captures (fromId, toId).
updateAll(s) ==
  LET conns == s.connections
      kept == {e \in s.emblems : MapHas(conns, e[1])}
      add[i \in 0..Len(conns)] ==
        IF i = 0 THEN kept
        ELSE LET e == conns[i] IN
             IF MapHas(s.nodes, e[1]) /\ MapHas(s.nodes, e[2])
                /\ ~\E k \in add[i - 1] : k[1] = e[1]
             THEN add[i - 1] \cup {e}
             ELSE add[i - 1]
  IN [s EXCEPT !.emblems = add[Len(conns)]]

removePath(s, id) == [s EXCEPT !.emblems = {e \in @ : e[1] # id}]

\* ------------------------------------------------------------ StateManager
\* StateManager's own emit: the event is recorded, its listeners are in the
\* mutation that emits it
emitted(s, event) == [s EXCEPT !.emitted = Append(@, event)]

\* addNode: Map.set, whether the id is registered or not; nodeAdded has no
\* listener
addNode(s, id, node) ==
  emitted([s EXCEPT !.nodes = MapSet(s.nodes, id, node)], "nodeAdded")

\* variant of removeNode that deletes only the connection leaving id
removeNodeOutgoingOnly(s, id) ==
  LET s1 == [s EXCEPT !.nodes = MapDelete(s.nodes, id),
                      !.connections = MapDelete(s.connections, id)]
  IN removePath(emitted(s1, "nodeRemoved"), id)

\* removeNode: Map.forEach visits every entry once, also when the callback
\* deletes the entry it is visiting.
removeNode(s, id) ==
  LET s1 == [s EXCEPT !.nodes = MapDelete(s.nodes, id),
                      !.connections =
                        SelectSeq(s.connections,
                                  LAMBDA e : ~(e[1] = id \/ e[2] = id))]
  IN removePath(emitted(s1, "nodeRemoved"), id)

\* variant of connectNodes that keeps connections as a list of pairs
connectNodesAppend(s, fromId, toId) ==
  updateAll(emitted([s EXCEPT !.connections =
                       Append(s.connections, <<fromId, toId>>)],
                    "connectionChanged"))

connectNodes(s, fromId, toId) ==
  updateAll(emitted([s EXCEPT !.connections =
                       MapSet(s.connections, fromId, toId)],
                    "connectionChanged"))

disconnectNodes(s, fromId) ==
  updateAll(emitted([s EXCEPT !.connections = MapDelete(s.connections, fromId)],
                    "connectionChanged"))

getNode(s, id) == IF MapHas(s.nodes, id) THEN MapGet(s.nodes, id) ELSE Null

getConnections(s) == s.connections


\* ------------------------------------------------------------ EventEmitter
\* Array.prototype.indexOf
IndexOf(seq, x) ==
  IF \E i \in DOMAIN seq : seq[i] = x
  THEN (CHOOSE i \in DOMAIN seq :
          seq[i] = x /\ \A j \in DOMAIN seq : seq[j] = x => i <= j) - 1
  ELSE -1

\* The callbacks that are registered: "a" and "b" only run, "once" removes
\* itself when it runs, "adder" registers "b" when it runs.
Callbacks == {"a", "b", "once", "adder"}

\* EventEmitter.on: the callback is pushed, whether it is registered or not
on(s, cb) == [s EXCEPT !.listeners = Append(@, cb)]

\* EventEmitter.off: the first occurrence of the callback is spliced out
off(s, cb) ==
  LET index == IndexOf(s.listeners, cb)
  IN IF index > -1
     THEN [s EXCEPT !.listeners =
             SubSeq(@, 1, index) \o SubSeq(@, index + 2, Len(@))]
     ELSE s

\* what a callback does when emit() calls it
invoke(s, cb) ==
  LET s1 == [s EXCEPT !.calls = Append(@, cb)]
  IN CASE cb = "once" -> off(s1, cb)
       [] cb = "adder" -> on(s1, "b")
       [] OTHER -> s1

\* Array.prototype.forEach on the live array: the indices 0..len-1 of the
\* array as it is when each index is reached, len being its length at the start
RECURSIVE forEach(_, _, _)
forEach(s, k, len) ==
  IF k >= len THEN s
  ELSE IF k >= Len(s.listeners) THEN forEach(s, k + 1, len)
  ELSE forEach(invoke(s, s.listeners[k + 1]), k + 1, len)

\* EventEmitter.emit
emit(s) == forEach([s EXCEPT !.calls = <<>>], 0, Len(s.listeners))

\* -------------------------------------------------------------- ViewerNode
showCanvas(s) ==
  IF s.currentItem # Null THEN [s EXCEPT !.display = "canvas"] ELSE s

showImage(s) ==
  IF s.currentItem # Null THEN [s EXCEPT !.display = "image"] ELSE s

\* --------------------------------------------------------- pixel buffers
\* A buffer is the image it was drawn from followed by the effects applied
\* to it, e.g. <<"A", "invert", "ragdoll">>.
Invert(buf) ==
  IF Len(buf) > 1 /\ buf[Len(buf)] = "invert"
  THEN SubSeq(buf, 1, Len(buf) - 1)
  ELSE Append(buf, "invert")

\* ImageData.data of a buffer: RGBA bytes, four per pixel.  The canvas has
\* CanvasPixels pixels; the decoded images of the catalog differ in every
\* pixel.
PixelsOf(image) ==
  LET base == IF image = "A" THEN <<10, 20, 30>> ELSE <<200, 100, 50>>
  IN [i \in 1..(4 * CanvasPixels) |->
        LET p == (i - 1) \div 4
            c == (i - 1) % 4
        IN IF c = 3 THEN 255
           ELSE IF c = 0 THEN (base[1] + p) % 256
           ELSE base[c + 1]]

\* variant of InvertTool.process that inverts the alpha channel as well
InvertPixelsWithAlpha(input) == [i \in DOMAIN input |-> 255 - input[i]]

\* InvertTool.process on the bytes: output[i] = 255 - input[i] for the three
\* colour channels, alpha copied; the input is left as it is
InvertPixels(input) ==
  [i \in DOMAIN input |->
     IF (i - 1) % 4 = 3 THEN input[i] ELSE 255 - input[i]]

\* the bytes after one effect: invert, or something drawn over the image
\* (a brush stamp, a ragdoll, a text box), which changes the second pixel
ApplyEffect(data, effect) ==
  IF effect = "invert" THEN InvertPixels(data)
  ELSE [i \in DOMAIN data |-> IF i \in 5..7 THEN 0 ELSE data[i]]

RECURSIVE PixelsFrom(_, _, _)
PixelsFrom(buf, k, data) ==
  IF k > Len(buf) THEN data
  ELSE PixelsFrom(buf, k + 1, ApplyEffect(data, buf[k]))

Pixels(buf) == PixelsFrom(buf, 2, PixelsOf(buf[1]))

\* SmudgeTool.hashImageData: hash = (hash << 5) - hash + data[i], truncated
\* to 32 bits by `hash & hash`, over every step-th byte.  The 32-bit value
\* is kept as two 16-bit halves <<high, low>>: 31 * hash + data[i] modulo
\* 2^32.  The loop is unrolled in blocks of 16 iterations.
RECURSIVE hashSamples(_, _, _, _, _)
hashSamples(data, i, step, n, hash) ==
  IF n = 0 \/ i >= Len(data) THEN <<i, hash>>
  ELSE LET low == 31 * hash[2] + data[i + 1]
           high == 31 * hash[1] + (low \div 65536)
       IN hashSamples(data, i + step, step, n - 1,
                      <<high % 65536, low % 65536>>)

RECURSIVE hashImageDataFrom(_, _, _, _)
hashImageDataFrom(data, i0, step, hash0) ==
  CHOOSE result \in {(
    IF i >= Len(data) THEN
      \* the int32 with these halves
      (IF hash[1] >= 32768 THEN hash[1] - 65536 ELSE hash[1]) * 65536
        + hash[2]
    ELSE LET next == hashSamples(data, i, step, 16, hash)
         IN hashImageDataFrom(data, next[1], step, next[2])
  ) : i \in {i0}, hash \in {hash0}} : TRUE

\* for fewer than 100 bytes step is 0 and the loop of the source does not
\* end; the canvas of this model has at least 100 bytes
hashImageData(data) ==
  hashImageDataFrom(data, 0, Len(data) \div 100, <<0, 0>>)

\* SmudgeTool.hashImageData as it runs: the call, up to the loop
hashImageDataCall(data) ==
  [data |-> data, step |-> Len(data) \div 100, i |-> 0, hash |-> <<0, 0>>,
   returned |-> FALSE, pass |-> 0]

\* the test of the loop and one pass through its body, or the return; pass
\* is history, the parity of the number of passes made
hashImageDataIteration(h) ==
  IF h.i < Len(h.data)
  THEN LET low == 31 * h.hash[2] + h.data[h.i + 1]
           high == 31 * h.hash[1] + (low \div 65536)
       IN [h EXCEPT !.hash = <<high % 65536, low % 65536>>,
                    !.i = @ + h.step,
                    !.pass = 1 - @]
  ELSE [h EXCEPT !.returned = TRUE]

\* the hashes of the buffers with up to MaxTools effects, computed once
Effects ==
  {"invert", "paint", "ragdoll", "text of A", "text of B",
   "No info available", "Info file not found", "Loading info..."}

HashTable ==
  [buf \in UNION {{<<image>> \o e : image \in Items, e \in [1..n -> Effects]} :
                    n \in 0..MaxTools} |->
     hashImageData(Pixels(buf))]

HashOf(buf) ==
  IF buf \in DOMAIN HashTable THEN HashTable[buf]
  ELSE hashImageData(Pixels(buf))

\* result of Tool.process: a buffer, the managed sentinel null, or an exception
Data(buf) == [t |-> "data", data |-> buf]
Managed == [t |-> "null", data |-> <<>>]
Thrown == [t |-> "throw", data |-> <<>>]

\* ---------------------------------------------------------- RenderPipeline
\* variant of the walk that looks at the visited set after it has taken the
\* parent, and marks the parent
RECURSIVE getToolsInOrderWalkLate(_, _, _, _)
getToolsInOrderWalkLate(s, currentId, visited, orderedTools) ==
  LET conns == getConnections(s)
      into == {i \in DOMAIN conns : conns[i][2] = currentId}
  IN IF into = {} THEN orderedTools
     ELSE LET parentId == conns[CHOOSE i \in into : \A j \in into : j <= i][1]
              found == IF parentId \in Range(s.toolMap)
                       THEN <<parentId>> \o orderedTools
                       ELSE orderedTools
          IN IF parentId \in visited THEN found
             ELSE getToolsInOrderWalkLate(s, parentId,
                                          visited \cup {parentId}, found)

RECURSIVE getToolsInOrderWalk(_, _, _, _)
\* (the arguments are bound by CHOOSE, so that each is evaluated once)
getToolsInOrderWalk(s, currentId0, visited0, orderedTools0) ==
  CHOOSE result \in {(
    LET conns == getConnections(s)
        \* parents.set(toId, fromId) for every connection: the last one wins
        into == {i \in DOMAIN conns : conns[i][2] = currentId}
    IN IF into # {} /\ currentId \notin visited
       THEN LET parentId == conns[CHOOSE i \in into : \A j \in into : j <= i][1]
            IN getToolsInOrderWalk(s, parentId, visited \cup {currentId},
                 IF parentId \in Range(s.toolMap)
                 THEN <<parentId>> \o orderedTools
                 ELSE orderedTools)
       ELSE orderedTools
  ) : currentId \in {currentId0}, visited \in {visited0},
      orderedTools \in {orderedTools0}} : TRUE

\* variant of getToolsInOrder that returns the tools in registration order
getToolsInRegistrationOrder(s) == s.toolMap

getToolsInOrder(s) == getToolsInOrderWalk(s, ViewerId, {}, <<>>)

hasTools(s) == Len(s.toolMap) > 0

\* SmudgeTool.process; ctx and canvas are those of the pipeline
SmudgeProcess(s, t, imageData) ==
  LET tool == s.tools[t] IN
  IF ~tool.viewerNode THEN [s |-> s, res |-> Thrown]
  ELSE IF s.currentItem = Null THEN [s |-> s, res |-> Data(imageData)]
  ELSE LET newHash == <<HashOf(imageData)>>
           imageDataChanged == newHash # tool.lastImageDataHash
           s1 == [s EXCEPT !.tools[t].lastImageData = imageData]
       IN IF ~tool.canvas
          THEN [s |-> [s1 EXCEPT !.tools[t].canvas = TRUE,
                                 !.tools[t].detached = FALSE,
                                 !.tools[t].pixels = <<>>,
                                 !.tools[t].lastImageDataHash = newHash,
                                 !.surface = imageData],
                res |-> Managed]
          ELSE IF imageDataChanged
          THEN [s |-> [s1 EXCEPT !.tools[t].brushPaint = FALSE,
                                 !.tools[t].lastImageDataHash = newHash,
                                 !.surface = imageData],
                res |-> Managed]
          ELSE [s |-> s1, res |-> Managed]

\* the pixels of SmudgeTool.canvas
SmudgeSurface(s, t) ==
  IF s.tools[t].detached THEN s.tools[t].pixels ELSE s.surface

\* RenderPipeline.getCanvas: a canvas that is not in the document is
\* replaced by a new one; a SmudgeTool keeps the canvas it was first given,
\* and the listeners of a RagdollTool stay behind on the old canvas
getCanvas(s) ==
  IF s.isConnected THEN s
  ELSE [s EXCEPT !.isConnected = TRUE,
                 !.surface = <<>>,
                 !.tools = [t \in DOMAIN @ |->
                   IF @[t].kind = "smudge" /\ @[t].canvas /\ ~@[t].detached
                   THEN [@[t] EXCEPT !.detached = TRUE, !.pixels = s.surface]
                   ELSE IF @[t].kind = "ragdoll"
                   THEN [@[t] EXCEPT !.subscribed = FALSE]
                   ELSE @[t]]]

RECURSIVE render(_)
RECURSIVE renderLoop(_, _, _, _)
RECURSIVE process(_, _, _)
RECURSIVE animate(_, _)

\* RagdollTool.startAnimation: the frame callback
animate(s, t) ==
  IF ~s.tools[t].active THEN s
  ELSE LET s1 == IF s.tools[t].viewerNode THEN render(s) ELSE s
       IN [s1 EXCEPT !.frames[t] = @ + 1,
                     !.tools[t].animationFrame = "live"]

\* Tool.process of the tool of node t, called with imageData
process(s, t, imageData) ==
  LET tool == s.tools[t] IN
  IF s.fault = t THEN [s |-> s, res |-> Thrown]
  ELSE CASE tool.kind = "invert" -> [s |-> s, res |-> Data(Invert(imageData))]
    [] tool.kind = "slideshow" -> [s |-> s, res |-> Data(imageData)]
    [] tool.kind = "info" ->
         LET text == IF tool.loading THEN "Loading info..." ELSE tool.infoText
             drawn == IF text # Null THEN Append(imageData, text)
                      ELSE imageData
         IN [s |-> [s EXCEPT !.surface = drawn], res |-> Data(drawn)]
    [] tool.kind = "ragdoll" ->
         LET s1 == [s EXCEPT !.tools[t].canvas = TRUE, !.surface = imageData]
             s2 == IF ~tool.ragdoll
                   THEN animate([s1 EXCEPT !.tools[t].ragdoll = TRUE,
                                           !.tools[t].subscribed = TRUE], t)
                   ELSE s1
             drawn == Append(s2.surface, "ragdoll")
         IN [s |-> [s2 EXCEPT !.surface = drawn], res |-> Data(drawn)]
    [] tool.kind = "smudge" -> SmudgeProcess(s, t, imageData)

\* the for loop of render() from index i on, up to the next await
\* (here and in render and renderResume the arguments are bound by CHOOSE,
\* so that each is evaluated once)
renderLoop(s0, orderedTools0, i0, src0) ==
  CHOOSE result \in {(
    IF i <= Len(orderedTools)
    THEN LET held == s.currentImageData
             r == process(s, orderedTools[i], held)
         IN [r.s EXCEPT !.jobs =
               Append(@, [tools |-> orderedTools, i |-> i, res |-> r.res,
                          held |-> held, src |-> src])]
    ELSE [s EXCEPT !.surface = s.currentImageData]
  ) : s \in {s0}, orderedTools \in {orderedTools0}, i \in {i0},
      src \in {src0}} : TRUE

\* a call of render(): runs until the first await
render(s0) ==
  CHOOSE result \in {(
    IF s.sourceImage = Null THEN s
    ELSE LET base == <<s.sourceImage>>
             s1 == showCanvas([getCanvas(s) EXCEPT !.surface = base,
                                                   !.currentImageData = base])
             orderedTools == getToolsInOrder(s1)
         IN renderLoop([s1 EXCEPT !.chain = orderedTools], orderedTools, 1,
                       s.sourceImage)
  ) : s \in {s0}} : TRUE

\* variant of the continuation that adopts a returned buffer without writing
\* it to the canvas
renderResumeNoWrite(s0) ==
  CHOOSE result \in {(
    LET job == Head(s.jobs)
        s1 == [s EXCEPT !.jobs = Tail(@)]
        s2 == CASE job.res.t = "null" ->
                     [s1 EXCEPT !.currentImageData = s1.surface]
                [] job.res.t = "data" ->
                     [s1 EXCEPT !.currentImageData = job.res.data]
                [] job.res.t = "throw" -> s1
    IN renderLoop(s2, job.tools, job.i + 1, job.src)
  ) : s \in {s0}} : TRUE

\* the continuation of render() after `await tool.process(...)`
renderResume(s0) ==
  CHOOSE result \in {(
    LET job == Head(s.jobs)
        isLastTool == job.i = Len(job.tools)
        s1 == [s EXCEPT !.jobs = Tail(@)]
        s2 == CASE job.res.t = "null" ->
                     [s1 EXCEPT !.currentImageData = s1.surface]
                [] job.res.t = "data" ->
                     [s1 EXCEPT !.currentImageData = job.res.data,
                                !.surface = IF isLastTool THEN @
                                            ELSE job.res.data]
                [] job.res.t = "throw" -> s1
    IN renderLoop(s2, job.tools, job.i + 1, job.src)
  ) : s \in {s0}} : TRUE

addTool(s, nodeId) ==
  render([s EXCEPT !.toolMap =
            IF nodeId \in Range(@) THEN @ ELSE Append(@, nodeId)])

\* variant of removeTool that leaves the tool registered
removeToolKeepsEntry(s, nodeId) ==
  IF nodeId \in Range(s.toolMap) THEN render(s) ELSE s

removeTool(s, nodeId) ==
  IF nodeId \in Range(s.toolMap)
  THEN LET s1 == [s EXCEPT !.toolMap = SelectSeq(@, LAMBDA x : x # nodeId)]
       IN IF Len(s1.toolMap) = 0 THEN showImage(s1) ELSE render(s1)
  ELSE s

\* loadImage: a new Image starts loading; overtaken is set later, when a
\* load that was requested after this one completes before it
loadImage(s, imagePath) ==
  [s EXCEPT !.pending = Append(@, [path |-> imagePath, overtaken |-> FALSE])]

\* variant of onload that stores the image and does not render it
onloadWithoutRender(s, i) ==
  LET img == s.pending[i]
      rest == [j \in 1..(Len(s.pending) - 1) |->
                 IF j < i THEN [s.pending[j] EXCEPT !.overtaken = TRUE]
                 ELSE s.pending[j + 1]]
  IN [s EXCEPT !.sourceImage = img.path,
               !.pending = rest,
               !.lastCompleted = img]

\* img.onload of the i-th load in flight
onload(s, i) ==
  LET img == s.pending[i]
      rest == [j \in 1..(Len(s.pending) - 1) |->
                 IF j < i THEN [s.pending[j] EXCEPT !.overtaken = TRUE]
                 ELSE s.pending[j + 1]]
  IN render([s EXCEPT !.sourceImage = img.path,
                      !.pending = rest,
                      !.lastCompleted = img])

\* img.onerror of the i-th load in flight: the promise is rejected
\* variant of onerror that drops the source image of the pipeline
onerrorDropsSource(s, i) ==
  [s EXCEPT !.sourceImage = Null,
            !.pending = [j \in 1..(Len(s.pending) - 1) |->
                           IF j < i THEN s.pending[j] ELSE s.pending[j + 1]]]

onerror(s, i) ==
  [s EXCEPT !.pending = [j \in 1..(Len(s.pending) - 1) |->
                           IF j < i THEN s.pending[j] ELSE s.pending[j + 1]]]


\* ------------------------------------------------------------------- tools
\* new toolDef.class(): the fields set by the constructors
newTool(kind) == [NoTool EXCEPT !.kind = kind]

InfoTextOf(item) == IF item = "A" THEN "text of A" ELSE "text of B"

\* InfoTool.loadInfoText up to its first await
loadInfoText(s, t) ==
  LET s1 == [s EXCEPT !.tools[t].loading = TRUE, !.tools[t].infoText = Null]
  IN IF s.currentItem = Null
     THEN [s1 EXCEPT !.tools[t].loading = FALSE]
     ELSE IF ~HasInfoPath(s.currentItem)
     THEN [s1 EXCEPT !.tools[t].infoText = "No info available",
                     !.tools[t].loading = FALSE]
     ELSE [s1 EXCEPT !.fetches = Append(@, <<t, s.currentItem>>)]

\* variant of loadInfoText without the catch: a failed fetch ends the load
loadInfoTextSettledNoCatch(s, t, item, ok) ==
  IF ok
  THEN render([s EXCEPT !.tools[t].infoText = InfoTextOf(item),
                        !.tools[t].loading = FALSE])
  ELSE [s EXCEPT !.raised = @ \cup {"loadInfoText"}]

\* InfoTool.loadInfoText after the fetch has settled
loadInfoTextSettled(s, t, item, ok) ==
  render([s EXCEPT !.tools[t].infoText =
                     IF ok THEN InfoTextOf(item) ELSE "Info file not found",
                   !.tools[t].loading = FALSE])

startSlideshow(s, t) ==
  IF Len(s.tools[t].items) = 0 THEN s
  ELSE [s EXCEPT !.timers[t] = @ + 1, !.tools[t].interval = TRUE]

\* variant of stopSlideshow that clears the interval without looking at it
stopSlideshowUnguarded(s, t) ==
  [s EXCEPT !.timers[t] = @ - 1, !.tools[t].interval = FALSE]

stopSlideshow(s, t) ==
  IF s.tools[t].interval
  THEN [s EXCEPT !.timers[t] = @ - 1, !.tools[t].interval = FALSE]
  ELSE s

\* the items of all categories, in the order of the categories
RECURSIVE Flatten(_)
Flatten(seqs) ==
  IF seqs = <<>> THEN <<>> ELSE Head(seqs) \o Flatten(Tail(seqs))

\* SmudgeTool.pickupPaint, mixPaint and applyPaint: the brush takes pixels
\* of the tool's canvas and stamps them on it; strokes over strokes are one
\* effect of the buffer
pickupPaint(s, t) == [s EXCEPT !.tools[t].brushPaint = TRUE]

mixPaint(s, t) == IF ~s.tools[t].brushPaint THEN pickupPaint(s, t) ELSE s

applyPaint(s, t) ==
  IF ~s.tools[t].brushPaint \/ s.surface = <<>>
     \/ s.surface[Len(s.surface)] = "paint"
  THEN s
  ELSE [s EXCEPT !.surface = Append(@, "paint")]

\* the mouse handlers that SmudgeTool.attachEventListeners puts on the canvas
mousedown(s, t) ==
  applyPaint(pickupPaint([s EXCEPT !.tools[t].isSmudging = TRUE], t), t)

mousemove(s, t) ==
  IF ~s.tools[t].isSmudging THEN s ELSE applyPaint(mixPaint(s, t), t)

mouseup(s, t) == [s EXCEPT !.tools[t].isSmudging = FALSE]

\* the mouse handlers that RagdollTool.setupMouseInteraction puts on the
\* canvas.  getMousePos reads this.canvas.getBoundingClientRect() and throws
\* a TypeError when this.canvas is null, stopDragging reads
\* this.ragdoll.stopDrag() and throws when this.ragdoll is null; hit: a
\* point of the ragdoll is under the pointer, so that startDrag returns true
ragdollMousedown(s, t, hit) ==
  IF ~s.tools[t].canvas THEN [s EXCEPT !.raised = @ \cup {"mousedown"}]
  ELSE IF hit THEN [s EXCEPT !.tools[t].isMouseDown = TRUE]
  ELSE s

ragdollMousemove(s, t) ==
  IF ~s.tools[t].isMouseDown THEN s
  ELSE IF ~s.tools[t].canvas THEN [s EXCEPT !.raised = @ \cup {"mousemove"}]
  ELSE s

stopDragging(s, t) ==
  IF ~s.tools[t].isMouseDown THEN s
  ELSE IF ~s.tools[t].ragdoll THEN [s EXCEPT !.raised = @ \cup {"mouseup"}]
  ELSE [s EXCEPT !.tools[t].isMouseDown = FALSE]

\* Tool.activate and its overrides
activate(s, t) ==
  LET kind == s.tools[t].kind
      s1 == [s EXCEPT !.tools[t].active = TRUE]
  IN CASE kind = "slideshow" ->
          LET found == {c \in DOMAIN s.manifest :
                          s.currentItem \in Range(s.manifest[c])}
              items == IF s.currentItem # Null /\ found # {}
                       THEN s.manifest[CHOOSE c \in found :
                                         \A d \in found : c <= d]
                       ELSE Flatten(s.manifest)
              s2 == [s1 EXCEPT !.tools[t].viewerNode = TRUE,
                               !.tools[t].items = items]
              index == IndexOf(items, s.currentItem)
              s3 == IF s.currentItem # Null /\ index # -1
                    THEN [s2 EXCEPT !.tools[t].currentItemIndex = index,
                                    !.tools[t].currentImageIndex =
                                      s.currentImageIndex]
                    ELSE s2
          IN startSlideshow(s3, t)
       [] kind = "info" -> loadInfoText(s1, t)
       [] kind = "ragdoll" -> [s1 EXCEPT !.tools[t].viewerNode = TRUE]
       [] kind = "smudge" ->
          showCanvas([s1 EXCEPT !.tools[t].viewerNode = TRUE])
       [] OTHER -> s1

\* variant of cleanup in which the ragdoll keeps its animation frame request
cleanupKeepsFrame(s, t) ==
  LET tool == s.tools[t]
  IN CASE tool.kind = "slideshow" ->
          LET s1 == stopSlideshow(s, t)
          IN [s1 EXCEPT !.tools[t].items = <<>>,
                        !.tools[t].currentItemIndex = 0,
                        !.tools[t].currentImageIndex = 0,
                        !.tools[t].viewerNode = FALSE]
       [] tool.kind = "ragdoll" ->
          [s EXCEPT !.tools[t].ragdoll = FALSE, !.tools[t].canvas = FALSE]
       [] tool.kind = "smudge" ->
          [s EXCEPT !.tools[t].canvas = FALSE,
                    !.tools[t].detached = FALSE,
                    !.tools[t].pixels = <<>>,
                    !.tools[t].viewerNode = FALSE,
                    !.tools[t].brushPaint = FALSE,
                    !.tools[t].isSmudging = FALSE,
                    !.tools[t].lastImageDataHash = <<>>,
                    !.tools[t].lastImageData = <<>>]
       [] OTHER -> s

\* Tool.cleanup and its overrides
cleanup(s, t) ==
  LET tool == s.tools[t]
  IN CASE tool.kind = "slideshow" ->
          LET s1 == stopSlideshow(s, t)
          IN [s1 EXCEPT !.tools[t].items = <<>>,
                        !.tools[t].currentItemIndex = 0,
                        !.tools[t].currentImageIndex = 0,
                        !.tools[t].viewerNode = FALSE]
       [] tool.kind = "ragdoll" ->
          LET s1 == IF tool.animationFrame # Null
                    THEN [s EXCEPT !.frames[t] =
                                     IF tool.animationFrame = "live"
                                     THEN @ - 1 ELSE @,
                                   !.tools[t].animationFrame = Null]
                    ELSE s
          IN [s1 EXCEPT !.tools[t].ragdoll = FALSE,
                        !.tools[t].canvas = FALSE]
       [] tool.kind = "smudge" ->
          [s EXCEPT !.tools[t].canvas = FALSE,
                    !.tools[t].detached = FALSE,
                    !.tools[t].pixels = <<>>,
                    !.tools[t].viewerNode = FALSE,
                    !.tools[t].brushPaint = FALSE,
                    !.tools[t].isSmudging = FALSE,
                    !.tools[t].lastImageDataHash = <<>>,
                    !.tools[t].lastImageData = <<>>]
       [] OTHER -> s

\* Tool.deactivate and its overrides
deactivate(s, t) ==
  LET kind == s.tools[t].kind
      s1 == cleanup([s EXCEPT !.tools[t].active = FALSE], t)
  IN CASE kind = "slideshow" -> stopSlideshow(s1, t)
       [] kind = "smudge" -> showImage(cleanup(s1, t))
       [] OTHER -> s1

\* ViewerNode.renderCurrentImage: the content is replaced by the <img> of
\* the current media and, when the pipeline has tools, the media is loaded.
\* The current media of a folder item is images[currentImageIndex]; past the
\* end it is undefined and reading its type throws.
renderCurrentImage(s) ==
  IF s.currentItem = Null THEN s
  ELSE IF IsFolder(s.currentItem)
          /\ s.currentImageIndex >= Len(Images(s.currentItem))
  THEN [s EXCEPT !.raised = @ \cup {"renderCurrentImage"}]
  ELSE LET path == IF IsFolder(s.currentItem)
                   THEN Images(s.currentItem)[s.currentImageIndex + 1]
                   ELSE ItemPath(s.currentItem)
           s1 == [s EXCEPT !.display = "image", !.isConnected = FALSE]
       IN IF hasTools(s1) THEN loadImage(s1, path) ELSE s1

displayItem(s, item) ==
  renderCurrentImage([s EXCEPT !.currentItem = item, !.currentImageIndex = 0])

\* the carousel buttons of a folder item with more than one image
carouselPrev(s) ==
  IF s.currentImageIndex > 0
  THEN renderCurrentImage([s EXCEPT !.currentImageIndex = @ - 1])
  ELSE s

carouselNext(s) ==
  IF s.currentImageIndex < Len(Images(s.currentItem)) - 1
  THEN renderCurrentImage([s EXCEPT !.currentImageIndex = @ + 1])
  ELSE s

\* StateManager.selectItem and the itemSelected listeners in registration
\* order: ViewerNode (displayItem), then PortfolioApp, which calls
\* loadNewImage on every SmudgeTool; the Canvas 2D SmudgeTool has no such
\* method, so the call throws out of emit().
selectItem(s, item) ==
  LET s1 == displayItem([s EXCEPT !.selectedItem = item], item)
  IN IF \E i \in DOMAIN s1.toolNodes : s1.tools[s1.toolNodes[i]].kind = "smudge"
     THEN [s1 EXCEPT !.raised = @ \cup {"itemSelected"}]
     ELSE s1

\* variant of showNextImage that selects the item it is on and then advances
showNextImageSelectsCurrent(s, t) ==
  LET tool == s.tools[t]
  IN IF Len(tool.items) = 0 THEN s
     ELSE LET next == (tool.currentItemIndex + 1) % Len(tool.items)
          IN selectItem([s EXCEPT !.tools[t].currentItemIndex = next],
                        tool.items[tool.currentItemIndex + 1])

\* SlideshowTool.showNextImage: on a folder item with a later image, that
\* image is shown by the viewer, and the lookup of the info tool in
\* pipeline.tools, which RenderPipeline does not have, throws; otherwise the
\* next item is selected
showNextImage(s, t) ==
  LET tool == s.tools[t]
  IN IF Len(tool.items) = 0 THEN s
     ELSE LET item == tool.items[tool.currentItemIndex + 1]
              next == (tool.currentItemIndex + 1) % Len(tool.items)
          IN IF IsFolder(item)
                /\ tool.currentImageIndex + 1 < Len(Images(item))
             THEN LET s1 == [s EXCEPT !.tools[t].currentImageIndex = @ + 1]
                  IN IF ~tool.viewerNode THEN s1
                     ELSE LET s2 == renderCurrentImage(
                                      [s1 EXCEPT !.currentImageIndex =
                                         tool.currentImageIndex + 1])
                          IN IF "renderCurrentImage" \in s2.raised THEN s2
                             ELSE [s2 EXCEPT !.raised =
                                     @ \cup {"showNextImage"}]
             ELSE selectItem([s EXCEPT !.tools[t].currentItemIndex = next,
                                       !.tools[t].currentImageIndex = 0],
                             tool.items[next + 1])

\* RenderPipeline.tools as cleanup() reads it: the constructor creates
\* toolMap and no tools, and no method assigns tools before cleanup() does
pipelineTools(s) == Undefined

\* this.tools.forEach(tool => tool.cleanup()) over an array of node ids
RECURSIVE cleanupEach(_, _)
cleanupEach(s, ids) ==
  IF ids = <<>> THEN s ELSE cleanupEach(cleanup(s, Head(ids)), Tail(ids))

\* RenderPipeline.cleanup: reading forEach of undefined throws a TypeError
\* out of the call, before anything is released
RenderPipeline_cleanup(s) ==
  IF pipelineTools(s) = Undefined
  THEN [s EXCEPT !.raised = @ \cup {"RenderPipeline.cleanup"}]
  ELSE [cleanupEach(s, pipelineTools(s)) EXCEPT !.isConnected = FALSE,
                                                !.surface = <<>>,
                                                !.currentImageData = <<>>,
                                                !.sourceImage = Null]

\* ------------------------------------------------------------ PortfolioApp
\* variant of handleToolNodeRemoval that does not reconnect around the tool
handleToolNodeRemovalNoBypass(s, toolNodeId) ==
  IF toolNodeId \notin Range(s.toolNodes) THEN s
  ELSE LET conns == getConnections(s)
           into == {i \in DOMAIN conns : conns[i][2] = toolNodeId}
           fromId == IF into = {} THEN Null
                     ELSE conns[CHOOSE i \in into : \A j \in into : j <= i][1]
           s1 == deactivate(removeTool(s, toolNodeId), toolNodeId)
           s2 == [s1 EXCEPT !.toolNodes = SelectSeq(@, LAMBDA x : x # toolNodeId)]
           s3 == IF fromId # Null THEN disconnectNodes(s2, fromId) ELSE s2
       IN disconnectNodes(s3, toolNodeId)

handleToolNodeRemoval(s, toolNodeId) ==
  IF toolNodeId \notin Range(s.toolNodes) THEN s
  ELSE LET conns == getConnections(s)
           into == {i \in DOMAIN conns : conns[i][2] = toolNodeId}
           fromId == IF into = {} THEN Null
                     ELSE conns[CHOOSE i \in into : \A j \in into : j <= i][1]
           toId == IF MapHas(conns, toolNodeId) THEN MapGet(conns, toolNodeId)
                   ELSE Null
           s1 == deactivate(removeTool(s, toolNodeId), toolNodeId)
           s2 == [s1 EXCEPT !.toolNodes = SelectSeq(@, LAMBDA x : x # toolNodeId)]
           s3 == IF fromId # Null THEN disconnectNodes(s2, fromId) ELSE s2
           s4 == disconnectNodes(s3, toolNodeId)
       IN IF fromId # Null /\ toId # Null
          THEN connectNodes(s4, fromId, toId)
          ELSE s4

\* ToolNode.remove: the removal callback, the tool's cleanup, Node.remove
ToolNodeRemove(s, id) ==
  removeNode(cleanup(handleToolNodeRemoval(s, id), id), id)

\* variant of handleToolEmblemClick that does not load the current item
handleToolEmblemClickNoLoad(s, toolType, fromId, toId) ==
  IF getNode(s, fromId) = Null \/ getNode(s, toId) = Null THEN s
  ELSE LET toolNodeId == ToolNodeId(s.toolNodeCounter)
           s1 == addNode([s EXCEPT !.toolNodeCounter = @ + 1,
                                   !.tools[toolNodeId] = newTool(toolType)],
                         toolNodeId, toolNodeId)
           s2 == addTool(activate(s1, toolNodeId), toolNodeId)
           s4 == [s2 EXCEPT !.toolNodes = Append(@, toolNodeId)]
       IN connectNodes(connectNodes(disconnectNodes(s4, fromId),
                                    fromId, toolNodeId),
                       toolNodeId, toId)

\* variant of handleToolEmblemClick that does not connect the new node onward
handleToolEmblemClickNoOutput(s, toolType, fromId, toId) ==
  IF getNode(s, fromId) = Null \/ getNode(s, toId) = Null THEN s
  ELSE LET toolNodeId == ToolNodeId(s.toolNodeCounter)
           s1 == addNode([s EXCEPT !.toolNodeCounter = @ + 1,
                                   !.tools[toolNodeId] = newTool(toolType)],
                         toolNodeId, toolNodeId)
           s2 == addTool(activate(s1, toolNodeId), toolNodeId)
           s3 == IF s2.currentItem # Null
                 THEN loadImage(s2, ItemPath(s2.currentItem))
                 ELSE s2
           s4 == [s3 EXCEPT !.toolNodes = Append(@, toolNodeId)]
       IN connectNodes(disconnectNodes(s4, fromId), fromId, toolNodeId)

handleToolEmblemClick(s, toolType, fromId, toId) ==
  IF getNode(s, fromId) = Null \/ getNode(s, toId) = Null THEN s
  ELSE LET toolNodeId == ToolNodeId(s.toolNodeCounter)
           s1 == addNode([s EXCEPT !.toolNodeCounter = @ + 1,
                                   !.tools[toolNodeId] = newTool(toolType)],
                         toolNodeId, toolNodeId)
           s2 == addTool(activate(s1, toolNodeId), toolNodeId)
           s3 == IF s2.currentItem # Null
                 THEN loadImage(s2, ItemPath(s2.currentItem))
                 ELSE s2
           s4 == [s3 EXCEPT !.toolNodes = Append(@, toolNodeId)]
       IN connectNodes(connectNodes(disconnectNodes(s4, fromId),
                                    fromId, toolNodeId),
                       toolNodeId, toId)

\* ---------------------------------------------------------------- ViewMode
RECURSIVE removeToolNodesFrom(_, _)
removeToolNodesFrom(s, ids) ==
  IF ids = <<>> THEN s
  ELSE removeToolNodesFrom(
         IF Head(ids) \in {WorkId, ViewerId} THEN s
         ELSE ToolNodeRemove(s, Head(ids)),
         Tail(ids))

removeToolNodes(s) == removeToolNodesFrom(s, MapKeys(s.nodes))

toggle(s) ==
  LET s1 == [s EXCEPT !.mode = IF @ = "simplified" THEN "full"
                               ELSE "simplified"]
  IN IF s1.mode = "simplified" THEN removeToolNodes(s1) ELSE s1


\* ----------------------------------------------------------- VerletPhysics
\* A JavaScript number is modelled exactly: the rational n/d is <<n, d>> in
\* lowest terms with d > 0, and the three values that are no rationals have
\* d = 0: Infinity is <<1, 0>>, -Infinity is <<-1, 0>> and NaN is <<0, 0>>.
RECURSIVE GCD(_, _)
GCD(a, b) == IF b = 0 THEN a ELSE GCD(b, a % b)
Abs(n) == IF n < 0 THEN -n ELSE n
Sign(n) == IF n < 0 THEN -1 ELSE IF n > 0 THEN 1 ELSE 0
Norm(n, d) ==
  IF d = 0 THEN <<Sign(n), 0>>
  ELSE LET g == GCD(Abs(n), Abs(d))
       IN <<(Sign(d) * n) \div g, Abs(d) \div g>>
Num(n) == <<n, 1>>
NaN == <<0, 0>>
Infinity == <<1, 0>>
isFinite(a) == a[2] # 0
isNaN(a) == a = NaN

\* a + b: NaN is absorbing, Infinity + -Infinity is NaN
add(a, b) ==
  IF isNaN(a) \/ isNaN(b) THEN NaN
  ELSE IF ~isFinite(a) /\ ~isFinite(b) THEN (IF a = b THEN a ELSE NaN)
  ELSE IF ~isFinite(a) THEN a
  ELSE IF ~isFinite(b) THEN b
  ELSE LET g == GCD(a[2], b[2])
       IN Norm(a[1] * (b[2] \div g) + b[1] * (a[2] \div g),
               (a[2] \div g) * b[2])
neg(a) == <<-a[1], a[2]>>
sub(a, b) == add(a, neg(b))
\* a * b: 0 * Infinity is NaN
mul(a, b) ==
  IF ~isFinite(a) \/ ~isFinite(b) \/ a[1] = 0 \/ b[1] = 0
  THEN Norm(Sign(a[1]) * Sign(b[1]), a[2] * b[2])
  ELSE LET g == GCD(Abs(a[1]), b[2])
           h == GCD(Abs(b[1]), a[2])
       IN Norm((a[1] \div g) * (b[1] \div h), (a[2] \div h) * (b[2] \div g))
\* a / b: x / 0 is Infinity, -Infinity or, for x = 0, NaN; it never throws
div(a, b) == mul(a, Norm(b[2], b[1]))
\* a < b: false when either is NaN
lt(a, b) ==
  IF isNaN(a) \/ isNaN(b) \/ a = b THEN FALSE
  ELSE IF a = neg(Infinity) \/ b = Infinity THEN TRUE
  ELSE IF a = Infinity \/ b = neg(Infinity) THEN FALSE
  ELSE sub(a, b)[1] < 0
gt(a, b) == lt(b, a)
\* the largest integer whose square is at most n
RECURSIVE isqrtBetween(_, _, _)
isqrtBetween(n, lo, hi) ==
  IF hi - lo <= 1 THEN lo
  ELSE LET mid == (lo + hi) \div 2
       IN IF mid <= n \div mid THEN isqrtBetween(n, mid, hi)
          ELSE isqrtBetween(n, lo, mid)
isqrt(n) == IF n < 2 THEN n ELSE isqrtBetween(n, 1, n)
\* Math.sqrt: exact on the square of a rational, the case of every distance
\* of the configurations below; otherwise rounded down to a multiple of 1/d
sqrt(a) ==
  IF isNaN(a) \/ a[1] < 0 THEN NaN
  ELSE IF ~isFinite(a) THEN a
  ELSE LET n == isqrt(a[1])
           d == isqrt(a[2])
       IN IF n * n = a[1] /\ d * d = a[2] THEN <<n, d>>
          ELSE Norm(isqrt(a[1] * a[2]), a[2])
\* Math.sqrt(dx * dx + dy * dy).  The square root of a square is taken
\* without squaring: Math.sqrt(d * d) is |d|, and the squares of the
\* fractions that relaxation produces exceed the integers of the checker.
sqrtOfSquares(dx, dy) ==
  IF isNaN(dx) \/ isNaN(dy) THEN NaN
  ELSE IF dx = Num(0) THEN (IF dy[1] < 0 THEN neg(dy) ELSE dy)
  ELSE IF dy = Num(0) THEN (IF dx[1] < 0 THEN neg(dx) ELSE dx)
  ELSE sqrt(add(mul(dx, dx), mul(dy, dy)))

\* new Point(x, y, pinned)
Point(x, y, pinned) ==
  [x |-> x, y |-> y, oldX |-> x, oldY |-> y, pinned |-> pinned,
   radius |-> Num(6)]

\* Point.update
Point_update(p, dt, gravity) ==
  IF p.pinned THEN p
  ELSE LET vx == sub(p.x, p.oldX)
           vy == sub(p.y, p.oldY)
       IN [p EXCEPT !.oldX = p.x, !.oldY = p.y,
                    !.x = add(p.x, add(vx, mul(mul(gravity.x, dt), dt))),
                    !.y = add(p.y, add(vy, mul(mul(gravity.y, dt), dt)))]

\* variant of Point.constrain that clamps pinned points too
constrainPinned(p, bounds) ==
  [p EXCEPT
     !.x = IF lt(p.x, p.radius) THEN p.radius
           ELSE IF gt(p.x, sub(bounds.width, p.radius))
                THEN sub(bounds.width, p.radius) ELSE @,
     !.y = IF lt(p.y, p.radius) THEN p.radius
           ELSE IF gt(p.y, sub(bounds.height, p.radius))
                THEN sub(bounds.height, p.radius) ELSE @]

\* Point.constrain
constrain(p, bounds) ==
  IF p.pinned THEN p
  ELSE [p EXCEPT
     !.x = IF lt(p.x, p.radius) THEN p.radius
           ELSE IF gt(p.x, sub(bounds.width, p.radius))
                THEN sub(bounds.width, p.radius) ELSE @,
     !.y = IF lt(p.y, p.radius) THEN p.radius
           ELSE IF gt(p.y, sub(bounds.height, p.radius))
                THEN sub(bounds.height, p.radius) ELSE @]

\* new Stick(p1, p2, length) on the points ps; p1 and p2 are indices of ps,
\* and a length of 0, as falsy as the default null, stands for the current
\* distance
Stick(ps, p1, p2, length) ==
  [p1 |-> p1, p2 |-> p2,
   length |-> IF length = Num(0) \/ isNaN(length)
              THEN sqrtOfSquares(sub(ps[p2].x, ps[p1].x), sub(ps[p2].y, ps[p1].y))
              ELSE length,
   stiffness |-> <<1, 2>>]

\* variant of Stick.update that moves each end by the whole correction of
\* an unscaled stiffness of 2
Stick_updateOvershoot(ps, stick) ==
  LET dx == sub(ps[stick.p2].x, ps[stick.p1].x)
      dy == sub(ps[stick.p2].y, ps[stick.p1].y)
      dist == sqrtOfSquares(dx, dy)
      diff == sub(stick.length, dist)
      percent == mul(div(diff, dist), Num(2))
      offsetX == mul(dx, percent)
      offsetY == mul(dy, percent)
      l == IF ~ps[stick.p1].pinned
           THEN [ps EXCEPT ![stick.p1].x = sub(@, offsetX),
                           ![stick.p1].y = sub(@, offsetY)]
           ELSE ps
  IN IF ~ps[stick.p2].pinned
     THEN [l EXCEPT ![stick.p2].x = add(@, offsetX),
                    ![stick.p2].y = add(@, offsetY)]
     ELSE l

\* Stick.update on the points ps
Stick_update(ps, stick) ==
  LET dx == sub(ps[stick.p2].x, ps[stick.p1].x)
      dy == sub(ps[stick.p2].y, ps[stick.p1].y)
      dist == sqrtOfSquares(dx, dy)
      diff == sub(stick.length, dist)
      percent == mul(div(diff, dist), stick.stiffness)
      offsetX == mul(mul(dx, percent), <<1, 2>>)
      offsetY == mul(mul(dy, percent), <<1, 2>>)
      l == IF ~ps[stick.p1].pinned
           THEN [ps EXCEPT ![stick.p1].x = sub(@, offsetX),
                           ![stick.p1].y = sub(@, offsetY)]
           ELSE ps
  IN IF ~ps[stick.p2].pinned
     THEN [l EXCEPT ![stick.p2].x = add(@, offsetX),
                    ![stick.p2].y = add(@, offsetY)]
     ELSE l

\* this.sticks.forEach((stick) => stick.update()), from stick k on
RECURSIVE sticksForEach(_, _, _)
sticksForEach(ps, ss, k) ==
  IF k > Len(ss) THEN ps
  ELSE sticksForEach(Stick_update(ps, ss[k]), ss, k + 1)

\* Ragdoll.update: every point is integrated and clamped, then the sticks
\* are relaxed three times
Ragdoll_update(ps, ss, dt, gravity, bounds) ==
  LET moved == [i \in DOMAIN ps |->
                  constrain(Point_update(ps[i], dt, gravity), bounds)]
  IN sticksForEach(sticksForEach(sticksForEach(moved, ss, 1), ss, 1), ss, 1)

\* Point.contains.  Math.sqrt(d) < r is decided as the code does, on the
\* distance
contains(p, px, py) ==
  LET dx == sub(p.x, px)
      dy == sub(p.y, py)
  IN lt(sqrtOfSquares(dx, dy), mul(p.radius, Num(2)))

\* Ragdoll.startDrag from point i on: the point that becomes this.dragging,
\* 0 when the loop ends without one and false is returned
RECURSIVE startDragFrom(_, _, _, _)
startDragFrom(ps, i, x, y) ==
  IF i > Len(ps) THEN 0
  ELSE IF ~ps[i].pinned /\ contains(ps[i], x, y) THEN i
  ELSE startDragFrom(ps, i + 1, x, y)

startDrag(s, x, y) ==
  LET point == startDragFrom(s.points, 1, x, y)
  IN IF point # 0 THEN [s EXCEPT !.dragging = point] ELSE s

\* Ragdoll.drag
drag(s, x, y) ==
  IF s.dragging # 0
  THEN [s EXCEPT !.points[s.dragging] =
          [@ EXCEPT !.x = x, !.y = y, !.oldX = x, !.oldY = y]]
  ELSE s

\* Ragdoll.stopDrag
stopDrag(s) == [s EXCEPT !.dragging = 0]

\* the listeners of RagdollTool.setupMouseInteraction with the pointer at
\* pos, on a ragdoll that exists
mousedownAt(s, t, pos) ==
  LET hit == startDragFrom(s.points, 1, pos.x, pos.y) # 0
  IN ragdollMousedown(startDrag(s, pos.x, pos.y), t, hit)

mousemoveAt(s, t, pos) ==
  IF s.tools[t].isMouseDown THEN drag(ragdollMousemove(s, t), pos.x, pos.y)
  ELSE s

mouseupAt(s, t) ==
  IF s.tools[t].isMouseDown THEN stopDragging(stopDrag(s), t) ELSE s

\* ---------------------------------------------------------- CanvasRenderer
\* the size the cache is cut back to
CacheLimit == 100

\* A text is the sequence of its words, and a word is the width that
\* ctx.measureText gives it; a space is one unit wide.  A line is a sequence
\* of words.
SpaceWidth == 1
RECURSIVE measureText(_)
measureText(line) ==
  IF line = <<>> THEN 0
  ELSE IF Len(line) = 1 THEN line[1]
  ELSE line[1] + SpaceWidth + measureText(Tail(line))

\* the loop of wrapText over the words from word k on
RECURSIVE wrapWords(_, _, _, _, _)
wrapWords(words, k, lines, currentLine, maxWidth) ==
  IF k > Len(words)
  THEN (IF currentLine # <<>> THEN Append(lines, currentLine) ELSE lines)
  ELSE LET testLine == IF currentLine # <<>> THEN Append(currentLine, words[k])
                       ELSE <<words[k]>>
       IN IF measureText(testLine) > maxWidth /\ currentLine # <<>>
          THEN wrapWords(words, k + 1, Append(lines, currentLine),
                         <<words[k]>>, maxWidth)
          ELSE wrapWords(words, k + 1, lines, testLine, maxWidth)

\* `${text}-${maxWidth}-${font}`
CacheKey(text, maxWidth, font) == <<text, maxWidth, font>>

\* variant of wrapText that cuts the cache back by its newest entry
wrapTextEvictsNewest(s, text, maxWidth, font, stamp) ==
  LET cacheKey == CacheKey(text, maxWidth, font)
  IN IF MapHas(s.cache, cacheKey) THEN s
     ELSE LET lines == wrapWords(text, 1, <<>>, <<>>, maxWidth)
              set == MapSet(s.cache, cacheKey, [lines |-> lines, at |-> stamp])
          IN [s EXCEPT !.cache =
                IF Len(set) > CacheLimit
                THEN MapDelete(set, set[Len(set)][1])
                ELSE set]

\* CanvasRenderer.wrapText; the lines are cached with the history value at,
\* the number of the insertion that put them into the cache
wrapText(s, text, maxWidth, font, stamp) ==
  LET cacheKey == CacheKey(text, maxWidth, font)
  IN IF MapHas(s.cache, cacheKey) THEN s
     ELSE LET lines == wrapWords(text, 1, <<>>, <<>>, maxWidth)
              set == MapSet(s.cache, cacheKey, [lines |-> lines, at |-> stamp])
          IN [s EXCEPT !.cache =
                IF Len(set) > CacheLimit
                THEN MapDelete(set, set[1][1])
                ELSE set]

\* ----------------------------------------------- RenderPipeline: canvas size
\* VIEWER.CANVAS_MAX_WIDTH and VIEWER.CANVAS_MAX_HEIGHT
CANVAS_MAX_WIDTH == 700
CANVAS_MAX_HEIGHT == 450

\* Math.floor of a finite number
floor(q) == q[1] \div q[2]

\* Math.min of three numbers, none of them NaN
min(a, b, c) ==
  LET ab == IF lt(b, a) THEN b ELSE a
  IN IF lt(c, ab) THEN c ELSE ab

\* variant of scale that does not cap the factor at 1
scaleUncapped(image, viewerContent) ==
  IF viewerContent.clientWidth > 0
  THEN min(div(Num(viewerContent.clientWidth), Num(image.width)),
           div(Num(viewerContent.clientHeight), Num(image.height)),
           Infinity)
  ELSE min(div(Num(CANVAS_MAX_WIDTH), Num(image.width)),
           div(Num(CANVAS_MAX_HEIGHT), Num(image.height)),
           Infinity)

\* the scale render() computes: the image fitted into viewer-content when it
\* is laid out (clientWidth > 0), else into the fixed maximal canvas; a
\* viewer-content that is missing takes the same branch as one of width 0
scale(image, viewerContent) ==
  IF viewerContent.clientWidth > 0
  THEN LET containerWidth == viewerContent.clientWidth
           containerHeight == viewerContent.clientHeight
       IN min(div(Num(containerWidth), Num(image.width)),
              div(Num(containerHeight), Num(image.height)),
              Num(1))
  ELSE min(div(Num(CANVAS_MAX_WIDTH), Num(image.width)),
           div(Num(CANVAS_MAX_HEIGHT), Num(image.height)),
           Num(1))

canvasWidth(image, viewerContent) ==
  floor(mul(Num(image.width), scale(image, viewerContent)))

canvasHeight(image, viewerContent) ==
  floor(mul(Num(image.height), scale(image, viewerContent)))

\* the head of render() for a source image of the given size: the canvas is
\* sized, and ctx.getImageData raises IndexSizeError out of render() when the
\* canvas has no pixels
renderSize(s, image, viewerContent) ==
  LET sized == [s EXCEPT !.canvas =
                  [width |-> canvasWidth(image, viewerContent),
                   height |-> canvasHeight(image, viewerContent)]]
  IN IF sized.canvas.width = 0 \/ sized.canvas.height = 0
     THEN [sized EXCEPT !.raised = @ \cup {"render"}]
     ELSE sized

\* ----------------------------------------------------------------- actions
Init ==
  /\ nodes = <<<<WorkId, WorkId>>, <<ViewerId, ViewerId>>>>
  /\ connections = <<<<WorkId, ViewerId>>>>
  /\ selectedItem = Null
  /\ manifest = <<Manifest>>
  /\ currentImageIndex = 0
  /\ listeners = <<>>
  /\ calls = <<>>
  /\ emblems = {<<WorkId, ViewerId>>}
  /\ mode = "simplified"
  /\ currentItem = Null
  /\ display = "empty"
  /\ toolNodes = <<>>
  /\ toolNodeCounter = 0
  /\ tools = [t \in ToolIds |-> NoTool]
  /\ timers = [t \in ToolIds |-> 0]
  /\ frames = [t \in ToolIds |-> 0]
  /\ toolMap = <<>>
  /\ sourceImage = Null
  /\ currentImageData = <<>>
  /\ surface = <<>>
  /\ isConnected = FALSE
  /\ jobs = <<>>
  /\ pending = <<>>
  /\ fetches = <<>>
  /\ raised = {}
  /\ points = <<>>
  /\ sticks = <<>>
  /\ cache = <<>>
  /\ canvas = NoCanvas
  /\ dragging = 0
  /\ hashing = NoCall
  /\ lastOp = Op("init", Null, Null, <<>>)
  /\ lastCompleted = [path |-> Null, overtaken |-> FALSE]

\* a macrotask starts only when no microtask is queued
Idle == jobs = <<>>
\* the tasks below may request one image load
Room == Len(pending) < MaxPending
\* environment: which existing tool, if any, fails in process() in this task
Faults == {Null} \cup {t \in ToolIds : tools[t].kind # "none"}

\* WorkNode item click
SelectItem(item) ==
  /\ Idle /\ Room
  /\ Commit(selectItem(Cur, item), Op("select", item, Null, <<>>))

\* click on an option of the emblem of connection e
EmblemClick(toolType, e, bad) ==
  /\ Idle /\ Room
  /\ mode = "full"
  /\ toolNodeCounter < MaxTools
  /\ Commit(handleToolEmblemClick([Cur EXCEPT !.fault = bad], toolType, e[1], e[2]),
            Op("insert", e[1], e[2], connections))

\* close button of a tool node
CloseTool(id, bad) ==
  /\ Idle
  /\ MapHas(nodes, id)
  /\ Commit(ToolNodeRemove([Cur EXCEPT !.fault = bad], id),
            Op("remove", id, Null, connections))

\* view mode toggle button
ToggleMode(bad) ==
  /\ Idle
  /\ Commit(toggle([Cur EXCEPT !.fault = bad]),
            Op("toggle", Null, Null, connections))

\* calls of on, off and emit for the event, by any holder of the emitter
On(cb) ==
  /\ Idle
  /\ Len(listeners) < MaxListeners
  /\ Commit(on(Cur, cb), Op("on", cb, Null, <<>>))

Off(cb) ==
  /\ Idle
  /\ Commit(off(Cur, cb), Op("off", cb, Null, <<>>))

\* (bounded: the callbacks registered after it are at most MaxListeners)
Emit ==
  /\ Idle
  /\ Len(emit(Cur).listeners) <= MaxListeners
  /\ Commit(emit(Cur), Op("emit", listeners, Null, <<>>))

\* clicks on the carousel buttons of the viewer
Carousel ==
  /\ Idle /\ Room
  /\ currentItem # Null /\ IsFolder(currentItem)
  /\ Len(Images(currentItem)) > 1
  /\ display # "empty"

CarouselPrev == Carousel /\ Commit(carouselPrev(Cur), Op("prev", Null, Null, <<>>))

CarouselNext == Carousel /\ Commit(carouselNext(Cur), Op("next", Null, Null, <<>>))

\* setInterval callback of a slideshow
SlideshowTick(t) ==
  /\ Idle /\ Room
  /\ timers[t] > 0
  /\ Commit(showNextImage(Cur, t), Op("tick", t, Null, <<>>))

\* requestAnimationFrame callback of a ragdoll; the handle that fires is the
\* one stored in animationFrame, or an older one
AnimationFrame(t, bad) ==
  /\ Idle
  /\ frames[t] > 0
  /\ \E stored \in BOOLEAN :
       /\ stored => tools[t].animationFrame = "live"
       /\ ~stored => (tools[t].animationFrame # "live" \/ frames[t] > 1)
       /\ Commit(animate([Cur EXCEPT !.fault = bad,
                                     !.frames[t] = @ - 1,
                                     !.tools[t].animationFrame =
                                       IF stored THEN "fired" ELSE @], t),
                 Op("frame", t, Null, <<>>))

\* the URL "undefined" is no image: such a load can only fail
ImageLoaded(i, bad) ==
  /\ Idle
  /\ i \in DOMAIN pending
  /\ pending[i].path # Undefined
  /\ Commit(onload([Cur EXCEPT !.fault = bad], i),
            Op("loaded", pending[i].path, Null, <<>>))

ImageFailed(i) ==
  /\ Idle
  /\ i \in DOMAIN pending
  /\ Commit(onerror(Cur, i), Op("failed", pending[i].path, Null, <<>>))

FetchSettled(i, ok, bad) ==
  /\ Idle
  /\ i \in DOMAIN fetches
  /\ LET f == fetches[i]
         s == [Cur EXCEPT !.fault = bad,
                          !.fetches = [j \in 1..(Len(fetches) - 1) |->
                                         IF j < i THEN fetches[j]
                                         ELSE fetches[j + 1]]]
     IN Commit(loadInfoTextSettled(s, f[1], f[2], ok),
               Op("fetched", f[1], IF ok THEN "ok" ELSE "failed", <<>>))

\* a mouse event reaches the handlers of a SmudgeTool when the canvas they
\* are attached to is the pipeline's canvas, in the document and shown
Paintable(t) ==
  /\ tools[t].kind = "smudge"
  /\ tools[t].canvas /\ ~tools[t].detached
  /\ isConnected /\ display = "canvas"

SmudgeDown(t) ==
  /\ Idle /\ Paintable(t)
  /\ Commit(mousedown(Cur, t), Op("mousedown", t, Null, <<>>))

SmudgeMove(t) ==
  /\ Idle /\ Paintable(t)
  /\ Commit(mousemove(Cur, t), Op("mousemove", t, Null, <<>>))

SmudgeUp(t) ==
  /\ Idle /\ Paintable(t)
  /\ Commit(mouseup(Cur, t), Op("mouseup", t, Null, <<>>))

\* a mouse event reaches the handlers of a RagdollTool when the canvas they
\* were added to is the pipeline's canvas, in the document and shown
Draggable(t) ==
  /\ tools[t].kind = "ragdoll"
  /\ tools[t].subscribed
  /\ isConnected /\ display = "canvas"

RagdollDown(t, hit) ==
  /\ Idle /\ Draggable(t)
  /\ Commit(ragdollMousedown(Cur, t, hit), Op("mousedown", t, hit, <<>>))

RagdollMove(t) ==
  /\ Idle /\ Draggable(t)
  /\ Commit(ragdollMousemove(Cur, t), Op("mousemove", t, Null, <<>>))

RagdollUp(t) ==
  /\ Idle /\ Draggable(t)
  /\ Commit(stopDragging(Cur, t), Op("mouseup", t, Null, <<>>))

\* the oldest queued continuation of render() runs up to its next await
Microtask(bad) ==
  /\ jobs # <<>>
  /\ Commit(renderResume([Cur EXCEPT !.fault = bad]),
            Op("microtask", Head(jobs).res.t, Null, <<>>))

Next ==
  \/ \E item \in Items : SelectItem(item)
  \/ \E toolType \in ToolKinds, e \in emblems, bad \in Faults :
       EmblemClick(toolType, e, bad)
  \/ \E id \in ToolIds, bad \in Faults : CloseTool(id, bad)
  \/ \E bad \in Faults : ToggleMode(bad)
  \/ \E t \in ToolIds : SlideshowTick(t)
  \/ \E t \in ToolIds, bad \in Faults : AnimationFrame(t, bad)
  \/ \E i \in 1..MaxPending, bad \in Faults : ImageLoaded(i, bad)
  \/ \E i \in 1..MaxPending : ImageFailed(i)
  \/ \E i \in DOMAIN fetches, ok \in BOOLEAN, bad \in Faults :
       FetchSettled(i, ok, bad)
  \/ \E bad \in Faults : Microtask(bad)
  \/ \E t \in ToolIds : SmudgeDown(t) \/ SmudgeMove(t) \/ SmudgeUp(t)
  \/ CarouselPrev
  \/ CarouselNext
  \/ \E cb \in Callbacks : On(cb) \/ Off(cb)
  \/ Emit

\* the whole application
Spec == Init /\ [][Next]_vars

\* ToolNode.activate / ToolNode.deactivate called on an existing tool node by
\* any holder of the node, not only by the two handlers of PortfolioApp
ToolActivate(t) ==
  /\ Idle
  /\ tools[t].kind # "none"
  /\ timers[t] < MaxTimers
  /\ Commit(activate(Cur, t), Op("activate", t, Null, <<>>))

ToolDeactivate(t) ==
  /\ Idle
  /\ tools[t].kind # "none"
  /\ Commit(deactivate(Cur, t), Op("deactivate", t, Null, <<>>))

\* Tool.cleanup called on an existing tool by any holder of the tool
ToolCleanup(t) ==
  /\ Idle
  /\ tools[t].kind # "none"
  /\ Commit(cleanup(Cur, t), Op("cleanup", t, Null, <<>>))

\* Graph editing only: no item is ever selected, so no image is loaded and
\* render() returns at once.  nodes, connections, emblems, toolNodes and
\* toolMap are written by these three handlers and by no other.
NextGraph ==
  \/ \E toolType \in ToolKinds, e \in emblems :
       EmblemClick(toolType, e, Null)
  \/ \E id \in ToolIds : CloseTool(id, Null)
  \/ ToggleMode(Null)

SpecGraph == Init /\ [][NextGraph]_vars

\* Rendering: one catalog item, transforming and overlay tools; any tool may
\* fail in process()
RenderKinds == {"invert", "ragdoll"}
NextRender ==
  \/ SelectItem("A")
  \/ \E toolType \in RenderKinds, e \in emblems, bad \in Faults :
       EmblemClick(toolType, e, bad)
  \/ \E id \in ToolIds, bad \in Faults : CloseTool(id, bad)
  \/ \E bad \in Faults : ToggleMode(bad)
  \/ \E t \in ToolIds, bad \in Faults : AnimationFrame(t, bad)
  \/ \E bad \in Faults : ImageLoaded(1, bad)
  \/ \E bad \in Faults : Microtask(bad)

SpecRender == Init /\ [][NextRender]_vars

\* Frame loops: ragdoll tools without failures, activated and deactivated
\* directly as well
NextRagdoll ==
  \/ SelectItem("A")
  \/ \E e \in emblems : EmblemClick("ragdoll", e, Null)
  \/ \E id \in ToolIds : CloseTool(id, Null)
  \/ ToggleMode(Null)
  \/ \E t \in ToolIds : AnimationFrame(t, Null)
  \/ \E t \in ToolIds : ToolActivate(t)
  \/ \E t \in ToolIds : ToolDeactivate(t)
  \/ ImageLoaded(1, Null)
  \/ Microtask(Null)

SpecRagdoll == Init /\ [][NextRagdoll]_vars

\* The Graph Store used directly: removeNode, connectNodes and
\* disconnectNodes with any ids, in any order, with the ConnectionManager
\* listening as it does in the application.
StoreIds == {WorkId, ViewerId, ToolNodeId(0)}

\* history of a store call: the edges that touched id before the call
Touching(id) == SelectSeq(connections, LAMBDA e : e[1] = id \/ e[2] = id)

StoreRemoveNode(id) ==
  Commit(removeNode(Cur, id), Op("removeNode", id, Null, Touching(id)))

\* addNode called with a node object of its own or with another object
OtherNode == "other-node"

StoreAddNode(id, node) ==
  Commit(addNode(Cur, id, node), Op("addNode", id, node, nodes))

StoreConnect(fromId, toId) ==
  Commit(connectNodes(Cur, fromId, toId),
         Op("connectNodes", fromId, toId, Touching(fromId)))

StoreDisconnect(fromId) ==
  Commit(disconnectNodes(Cur, fromId),
         Op("disconnectNodes", fromId, Null, Touching(fromId)))

NextStore ==
  \/ \E id \in StoreIds : StoreRemoveNode(id)
  \/ \E fromId \in StoreIds, toId \in StoreIds : StoreConnect(fromId, toId)
  \/ \E fromId \in StoreIds : StoreDisconnect(fromId)

SpecStore == Init /\ [][NextStore]_vars

\* The nodes of the store: added, removed, and connected to the viewer
NextNodes ==
  \/ \E id \in StoreIds : \E node \in {id, OtherNode} : StoreAddNode(id, node)
  \/ \E id \in StoreIds : StoreRemoveNode(id)
  \/ \E fromId \in StoreIds : StoreConnect(fromId, ViewerId)

SpecNodes == Init /\ [][NextNodes]_vars

\* Slideshows: both catalog items, slideshow tools, their timers
NextSlideshow ==
  \/ \E item \in Items : SelectItem(item)
  \/ \E e \in emblems : EmblemClick("slideshow", e, Null)
  \/ \E id \in ToolIds : CloseTool(id, Null)
  \/ ToggleMode(Null)
  \/ \E t \in ToolIds : SlideshowTick(t)
  \/ \E t \in ToolIds : ToolActivate(t)
  \/ \E t \in ToolIds : ToolDeactivate(t)
  \/ ImageLoaded(1, Null)
  \/ Microtask(Null)

SpecSlideshow == Init /\ [][NextSlideshow]_vars

\* A slideshow and its timer: both catalog items, slideshow tools, ticks
NextTicks ==
  \/ \E item \in Items : SelectItem(item)
  \/ \E e \in emblems : EmblemClick("slideshow", e, Null)
  \/ \E id \in ToolIds : CloseTool(id, Null)
  \/ ToggleMode(Null)
  \/ \E t \in ToolIds : SlideshowTick(t)
  \/ ImageLoaded(1, Null)
  \/ Microtask(Null)

SpecTicks == Init /\ [][NextTicks]_vars

\* A slideshow over composite items: the catalog is the one category Folders
InitFolder ==
  /\ nodes = <<<<WorkId, WorkId>>, <<ViewerId, ViewerId>>>>
  /\ connections = <<<<WorkId, ViewerId>>>>
  /\ selectedItem = Null
  /\ manifest = <<Folders>>
  /\ currentImageIndex = 0
  /\ listeners = <<>>
  /\ calls = <<>>
  /\ emblems = {<<WorkId, ViewerId>>}
  /\ mode = "simplified"
  /\ currentItem = Null
  /\ display = "empty"
  /\ toolNodes = <<>>
  /\ toolNodeCounter = 0
  /\ tools = [t \in ToolIds |-> NoTool]
  /\ timers = [t \in ToolIds |-> 0]
  /\ frames = [t \in ToolIds |-> 0]
  /\ toolMap = <<>>
  /\ sourceImage = Null
  /\ currentImageData = <<>>
  /\ surface = <<>>
  /\ isConnected = FALSE
  /\ jobs = <<>>
  /\ pending = <<>>
  /\ fetches = <<>>
  /\ raised = {}
  /\ points = <<>>
  /\ sticks = <<>>
  /\ cache = <<>>
  /\ canvas = NoCanvas
  /\ dragging = 0
  /\ hashing = NoCall
  /\ lastOp = Op("init", Null, Null, <<>>)
  /\ lastCompleted = [path |-> Null, overtaken |-> FALSE]

NextFolder ==
  \/ \E item \in Range(Folders) : SelectItem(item)
  \/ \E e \in emblems : EmblemClick("slideshow", e, Null)
  \/ \E id \in ToolIds : CloseTool(id, Null)
  \/ ToggleMode(Null)
  \/ \E t \in ToolIds : SlideshowTick(t)
  \/ CarouselPrev
  \/ CarouselNext
  \/ ImageLoaded(1, Null)
  \/ ImageFailed(1)
  \/ Microtask(Null)

SpecFolder == InitFolder /\ [][NextFolder]_vars

\* The event emitter on its own
NextEmitter ==
  \/ \E cb \in Callbacks : On(cb)
  \/ \E cb \in Callbacks : Off(cb)
  \/ Emit

SpecEmitter == Init /\ [][NextEmitter]_vars

\* Cleanup: one tool at a time, of every kind, on item "B", cleaned up
\* directly as well
NextCleanup ==
  \/ SelectItem("B")
  \/ \E toolType \in ToolKinds, e \in emblems :
       toolNodes = <<>> /\ EmblemClick(toolType, e, Null)
  \/ \E id \in ToolIds : CloseTool(id, Null)
  \/ ToggleMode(Null)
  \/ \E t \in ToolIds : ToolCleanup(t)
  \/ ImageLoaded(1, Null)
  \/ Microtask(Null)

SpecCleanup == Init /\ [][NextCleanup]_vars

\* Tool order: invert tools inserted in full mode, and any edges between the
\* viewer and the first tool node, once it exists, set in the store directly
OrderIds == {ViewerId, ToolNodeId(0)}

NextOrder ==
  \/ currentItem = Null /\ SelectItem("A")
  \/ \E e \in emblems : EmblemClick("invert", e, Null)
  \/ mode = "simplified" /\ ToggleMode(Null)
  \/ \E fromId \in OrderIds, toId \in OrderIds :
       /\ MapHas(nodes, fromId) /\ MapHas(nodes, toId)
       /\ StoreConnect(fromId, toId)
  \/ ImageLoaded(1, Null)
  \/ Microtask(Null)

SpecOrder == Init /\ [][NextOrder]_vars

\* Info overlays: either catalog item selected once, info tools, fetches
\* that succeed or fail
NextInfo ==
  \/ \E item \in Items : currentItem = Null /\ SelectItem(item)
  \/ \E e \in emblems : EmblemClick("info", e, Null)
  \/ \E id \in ToolIds : CloseTool(id, Null)
  \/ ToggleMode(Null)
  \/ \E i \in DOMAIN fetches, ok \in BOOLEAN : FetchSettled(i, ok, Null)
  \/ ImageLoaded(1, Null)
  \/ Microtask(Null)

SpecInfo == Init /\ [][NextInfo]_vars

\* Image loading: both catalog items, loads that complete or fail in any order
NextLoad ==
  \/ \E item \in Items : SelectItem(item)
  \/ \E e \in emblems : EmblemClick("invert", e, Null)
  \/ \E id \in ToolIds : CloseTool(id, Null)
  \/ ToggleMode(Null)
  \/ \E i \in 1..MaxPending : ImageLoaded(i, Null)
  \/ \E i \in 1..MaxPending : ImageFailed(i)
  \/ Microtask(Null)

SpecLoad == Init /\ [][NextLoad]_vars

\* Graph edits while an item is displayed, in a host that runs every queued
\* microtask and completes every image load it has started (the decoding of
\* the catalog's images succeeds); the visitor's clicks are under no
\* obligation to happen.
NextEdit ==
  \/ SelectItem("A")
  \/ \E e \in emblems : EmblemClick("invert", e, Null)
  \/ \E id \in ToolIds : CloseTool(id, Null)
  \/ ToggleMode(Null)
  \/ \E i \in 1..MaxPending : ImageLoaded(i, Null)
  \/ Microtask(Null)

SpecEdit ==
  /\ Init /\ [][NextEdit]_vars
  /\ WF_vars(\E i \in 1..MaxPending : ImageLoaded(i, Null))
  /\ WF_vars(Microtask(Null))

\* Painting: both catalog items, Smudge and Invert tools, brush strokes
SmudgeKinds == {"smudge", "invert"}
NextSmudge ==
  \/ \E item \in Items : SelectItem(item)
  \/ \E toolType \in SmudgeKinds, e \in emblems : EmblemClick(toolType, e, Null)
  \/ \E id \in ToolIds : CloseTool(id, Null)
  \/ ToggleMode(Null)
  \/ \E t \in ToolIds : SmudgeDown(t)
  \/ \E t \in ToolIds : SmudgeMove(t)
  \/ \E t \in ToolIds : SmudgeUp(t)
  \/ ImageLoaded(1, Null)
  \/ Microtask(Null)

SpecSmudge == Init /\ [][NextSmudge]_vars

\* InvertTool.process on its own: currentImageData is the ImageData passed
\* in, surface the ImageData returned by the last call, lastOp.a the number
\* of calls; each call after the first is given the result of the one
\* before.  The inputs: one pixel with every value 0..255 in each channel,
\* and all buffers of up to MaxPixels pixels with bytes 0 and 255.
InvertInputs ==
  {[i \in 1..4 |-> IF i = c THEN x ELSE 100] : c \in 1..4, x \in 0..255}
    \cup UNION {[1..(4 * n) -> {0, 255}] : n \in 1..MaxPixels}

InitInvert ==
  /\ nodes = <<<<WorkId, WorkId>>, <<ViewerId, ViewerId>>>>
  /\ connections = <<<<WorkId, ViewerId>>>>
  /\ selectedItem = Null
  /\ manifest = <<Manifest>>
  /\ currentImageIndex = 0
  /\ listeners = <<>>
  /\ calls = <<>>
  /\ emblems = {<<WorkId, ViewerId>>}
  /\ mode = "simplified"
  /\ currentItem = Null
  /\ display = "empty"
  /\ toolNodes = <<>>
  /\ toolNodeCounter = 0
  /\ tools = [t \in ToolIds |-> NoTool]
  /\ timers = [t \in ToolIds |-> 0]
  /\ frames = [t \in ToolIds |-> 0]
  /\ toolMap = <<>>
  /\ sourceImage = Null
  /\ currentImageData \in InvertInputs
  /\ surface = <<>>
  /\ isConnected = FALSE
  /\ jobs = <<>>
  /\ pending = <<>>
  /\ fetches = <<>>
  /\ raised = {}
  /\ points = <<>>
  /\ sticks = <<>>
  /\ cache = <<>>
  /\ canvas = NoCanvas
  /\ dragging = 0
  /\ hashing = NoCall
  /\ lastOp = Op("invertPixels", 0, Null, <<>>)
  /\ lastCompleted = [path |-> Null, overtaken |-> FALSE]

InvertProcess ==
  /\ lastOp.op = "invertPixels"
  /\ lastOp.a < 2
  /\ Commit([Cur EXCEPT !.surface =
                InvertPixels(IF lastOp.a = 0 THEN currentImageData ELSE @)],
            Op("invertPixels", lastOp.a + 1, Null, <<>>))

SpecInvert == InitInvert /\ [][InvertProcess]_vars

\* Stick.update on its own: two points joined by one stick, relaxed up to
\* MaxRelax times.  The second point lies at one of StickOffsets from the
\* first, among them no offset at all; either point may be pinned; the rest
\* length is the current distance or one of StickLengths, the stiffness one
\* of Stiffnesses.  Every offset has a rational length.
StickOffsets == {<<0, 0>>, <<3, 4>>, <<0, 5>>, <<6, 0>>, <<-8, 6>>, <<0, -2>>}
StickLengths == {Num(0), Num(2), Num(5), Num(10)}
Stiffnesses == {<<1, 4>>, <<1, 2>>, <<1, 1>>}
StickPoints ==
  {<<Point(Num(20), Num(20), pin1),
     Point(Num(20 + o[1]), Num(20 + o[2]), pin2)>> :
     o \in StickOffsets, pin1 \in BOOLEAN, pin2 \in BOOLEAN}

InitStick ==
  /\ nodes = <<<<WorkId, WorkId>>, <<ViewerId, ViewerId>>>>
  /\ connections = <<<<WorkId, ViewerId>>>>
  /\ selectedItem = Null
  /\ manifest = <<Manifest>>
  /\ currentImageIndex = 0
  /\ listeners = <<>>
  /\ calls = <<>>
  /\ emblems = {<<WorkId, ViewerId>>}
  /\ mode = "simplified"
  /\ currentItem = Null
  /\ display = "empty"
  /\ toolNodes = <<>>
  /\ toolNodeCounter = 0
  /\ tools = [t \in ToolIds |-> NoTool]
  /\ timers = [t \in ToolIds |-> 0]
  /\ frames = [t \in ToolIds |-> 0]
  /\ toolMap = <<>>
  /\ sourceImage = Null
  /\ currentImageData = <<>>
  /\ surface = <<>>
  /\ isConnected = FALSE
  /\ jobs = <<>>
  /\ pending = <<>>
  /\ fetches = <<>>
  /\ raised = {}
  /\ points \in StickPoints
  /\ \E length \in StickLengths, stiffness \in Stiffnesses :
       sticks = <<[Stick(points, 1, 2, length) EXCEPT !.stiffness = stiffness]>>
  /\ cache = <<>>
  /\ canvas = NoCanvas
  /\ dragging = 0
  /\ hashing = NoCall
  /\ lastOp = Op("stick", 0, Null, <<>>)
  /\ lastCompleted = [path |-> Null, overtaken |-> FALSE]

\* stick.update() of the only stick
StickUpdate ==
  /\ lastOp.op = "stick"
  /\ lastOp.a < MaxRelax
  /\ Commit([Cur EXCEPT !.points = Stick_update(points, sticks[1])],
            Op("stick", lastOp.a + 1, Null, <<>>))

SpecStick == InitStick /\ [][StickUpdate]_vars


\* The physics of a figure: three points in a vertical line (a hip, a knee
\* and a foot) joined by two sticks of the length the points are apart, as
\* Ragdoll.createBody joins a leg.  Any of the points may be pinned, the foot
\* may be moving down, and the foot may stand on the lower bound.  With no
\* horizontal gravity the figure stays in its line, where every distance is
\* rational.
KneeYs == {60, 80}
FootYs == {90, 94}
FootSpeeds == {0, 10}
FigurePoints ==
  {<<Point(Num(50), Num(40), pin1),
     Point(Num(50), Num(knee), pin2),
     [Point(Num(50), Num(foot), pin3) EXCEPT !.oldY = Num(foot - v)]>> :
     knee \in KneeYs, foot \in FootYs, v \in FootSpeeds,
     pin1 \in BOOLEAN, pin2 \in BOOLEAN, pin3 \in BOOLEAN}
\* RagdollTool.gravity as constructed
Gravity == [x |-> Num(0), y |-> Num(400)]
\* dt of RagdollTool.process: the seconds since the last call, at most 0.016
Dts == {Num(0), <<1, 100>>}
\* the size of the canvas: one as high as the figure, one half as high
Bounds == {[width |-> Num(100), height |-> Num(100)],
           [width |-> Num(100), height |-> Num(50)]}

InitVerlet ==
  /\ nodes = <<<<WorkId, WorkId>>, <<ViewerId, ViewerId>>>>
  /\ connections = <<<<WorkId, ViewerId>>>>
  /\ selectedItem = Null
  /\ manifest = <<Manifest>>
  /\ currentImageIndex = 0
  /\ listeners = <<>>
  /\ calls = <<>>
  /\ emblems = {<<WorkId, ViewerId>>}
  /\ mode = "simplified"
  /\ currentItem = Null
  /\ display = "empty"
  /\ toolNodes = <<>>
  /\ toolNodeCounter = 0
  /\ tools = [t \in ToolIds |-> NoTool]
  /\ timers = [t \in ToolIds |-> 0]
  /\ frames = [t \in ToolIds |-> 0]
  /\ toolMap = <<>>
  /\ sourceImage = Null
  /\ currentImageData = <<>>
  /\ surface = <<>>
  /\ isConnected = FALSE
  /\ jobs = <<>>
  /\ pending = <<>>
  /\ fetches = <<>>
  /\ raised = {}
  /\ points \in FigurePoints
  /\ sticks = <<Stick(points, 1, 2, Num(0)), Stick(points, 2, 3, Num(0))>>
  /\ cache = <<>>
  /\ canvas = NoCanvas
  /\ dragging = 0
  /\ hashing = NoCall
  /\ lastOp = Op("figure", 0, Null, <<>>)
  /\ lastCompleted = [path |-> Null, overtaken |-> FALSE]

PhysicsOps == {"figure", "update", "constrain", "relax", "ragdoll"}
\* the next operation is taken from coordinates in fractions of at most
\* MaxDenominator parts: a complete step divides them 4^6 times finer
MoreSteps ==
  /\ lastOp.op \in PhysicsOps
  /\ lastOp.a < MaxSteps
  /\ \A i \in DOMAIN points :
       /\ points[i].x[2] <= MaxDenominator /\ points[i].y[2] <= MaxDenominator
       /\ points[i].oldX[2] <= MaxDenominator
       /\ points[i].oldY[2] <= MaxDenominator

\* point.update(dt, gravity) of point i
PointUpdate(i, dt) ==
  /\ MoreSteps
  /\ Commit([Cur EXCEPT !.points[i] = Point_update(@, dt, Gravity)],
            Op("update", lastOp.a + 1, i, <<>>))

\* point.constrain(bounds) of point i
PointConstrain(i, bounds) ==
  /\ MoreSteps
  /\ Commit([Cur EXCEPT !.points[i] = constrain(@, bounds)],
            Op("constrain", lastOp.a + 1, bounds, <<>>))

\* stick.update() of stick k
StickRelax(k) ==
  /\ MoreSteps
  /\ Commit([Cur EXCEPT !.points = Stick_update(points, sticks[k])],
            Op("relax", lastOp.a + 1, k, <<>>))

\* ragdoll.update(dt, gravity, bounds)
RagdollUpdate(dt, bounds) ==
  /\ MoreSteps
  /\ Commit([Cur EXCEPT !.points =
                Ragdoll_update(points, sticks, dt, Gravity, bounds)],
            Op("ragdoll", lastOp.a + 1, bounds, <<>>))

NextVerlet ==
  \/ \E i \in DOMAIN points : PointUpdate(i, <<1, 100>>)
  \/ \E i \in DOMAIN points : PointConstrain(i, [width |-> Num(100), height |-> Num(100)])
  \/ \E k \in DOMAIN sticks : StickRelax(k)
  \/ \E dt \in Dts, bounds \in Bounds : RagdollUpdate(dt, bounds)

SpecVerlet == InitVerlet /\ [][NextVerlet]_vars


\* Pointers: item A selected once, Ragdoll, Smudge and Invert tools, and the
\* mouse events that reach the canvas
PointerKinds == {"ragdoll", "smudge", "invert"}
NextPointer ==
  \/ currentItem = Null /\ SelectItem("A")
  \/ \E toolType \in PointerKinds, e \in emblems : EmblemClick(toolType, e, Null)
  \/ \E id \in ToolIds : CloseTool(id, Null)
  \/ mode = "simplified" /\ ToggleMode(Null)
  \/ \E t \in ToolIds : AnimationFrame(t, Null)
  \/ \E t \in ToolIds, hit \in BOOLEAN : RagdollDown(t, hit)
  \/ \E t \in ToolIds : RagdollMove(t)
  \/ \E t \in ToolIds : RagdollUp(t)
  \/ \E t \in ToolIds : SmudgeDown(t)
  \/ \E t \in ToolIds : SmudgeMove(t)
  \/ \E t \in ToolIds : SmudgeUp(t)
  \/ ImageLoaded(1, Null)
  \/ Microtask(Null)

SpecPointer == Init /\ [][NextPointer]_vars

\* CanvasRenderer.wrapText on its own.  The texts are numbered; text n is
\* three words, the first n wide, so that the short texts fit into one line
\* and the others wrap into two.  A call asks for the next text not asked for yet, for the text
\* of the oldest or of the newest entry of the cache, or for the last text
\* that is no longer in it.  lastOp.a is the text asked for, lastOp.b the
\* count of the insertions and of the texts asked for so far.
TextOf(n) == <<n, 20, 30>>
MaxWidth == 60
Font == "bold 14px"
Cached(n) == MapHas(cache, CacheKey(TextOf(n), MaxWidth, Font))
Asked == IF lastOp.op = "wrapText" THEN lastOp.b
         ELSE [inserted |-> 0, texts |-> 0]
Requests ==
  {Asked.texts + 1}
    \cup {cache[i][1][1][1] : i \in DOMAIN cache \cap {1, Len(cache)}}
    \cup {n \in 1..Asked.texts :
            ~Cached(n) /\ \A m \in (n + 1)..Asked.texts : Cached(m)}

WrapText(n) ==
  /\ lastOp.op \in {"init", "wrapText"}
  /\ Cached(n) \/ Asked.inserted < MaxInserts
  /\ Commit(wrapText(Cur, TextOf(n), MaxWidth, Font, Asked.inserted + 1),
            Op("wrapText", n,
               [inserted |-> IF Cached(n) THEN Asked.inserted
                             ELSE Asked.inserted + 1,
                texts |-> IF n > Asked.texts THEN n ELSE Asked.texts],
               <<>>))

NextCache == \E n \in Requests : WrapText(n)

SpecCache == Init /\ [][NextCache]_vars

\* ---- render() sizing the canvas: images and content boxes of any size
ImageSizes == {1, 2, 7, 100, 1400}
ClientSizes == {0, 1, 50, 700}
SourceImages == [width : ImageSizes, height : ImageSizes]
ViewerContents == [clientWidth : ClientSizes, clientHeight : ClientSizes]

RenderSize(image, viewerContent) ==
  /\ lastOp.op \in {"init", "renderSize"}
  /\ Commit(renderSize(Cur, image, viewerContent),
            Op("renderSize", image, viewerContent, <<>>))

NextSize ==
  \E image \in SourceImages, viewerContent \in ViewerContents :
    RenderSize(image, viewerContent)

SpecSize == Init /\ [][NextSize]_vars

\* ---- render() through chains of tools that return a buffer, draw on the
\* canvas themselves, or manage the canvas and return null
ChainKinds == {"smudge", "invert", "ragdoll"}
NextChain ==
  \/ currentItem = Null /\ SelectItem("A")
  \/ \E toolType \in ChainKinds, e \in emblems : EmblemClick(toolType, e, Null)
  \/ \E id \in ToolIds : CloseTool(id, Null)
  \/ mode = "simplified" /\ ToggleMode(Null)
  \/ ImageLoaded(1, Null)
  \/ Microtask(Null)

SpecChain == Init /\ [][NextChain]_vars

\* ---- RagdollTool's pointer listeners and frames on a figure of three
\* points in one line: the pointer goes down, moves and is released at
\* Pointers, of which one is away from every point and one is within the
\* first two, the first of which may be pinned, and between the events
\* RagdollTool.process steps the simulation.  lastOp.a counts the frames.
DragTool == CHOOSE t \in ToolIds : TRUE
DragPoints ==
  {<<Point(Num(50), Num(40), pin1),
     Point(Num(50), Num(60), FALSE),
     Point(Num(50), Num(90), FALSE)>> : pin1 \in BOOLEAN}
Pointers == {[x |-> Num(50), y |-> Num(y)] : y \in {10, 50}}

InitDrag ==
  /\ nodes = <<<<WorkId, WorkId>>, <<ViewerId, ViewerId>>>>
  /\ connections = <<<<WorkId, ViewerId>>>>
  /\ selectedItem = Null
  /\ manifest = <<Manifest>>
  /\ currentImageIndex = 0
  /\ listeners = <<>>
  /\ calls = <<>>
  /\ emblems = {<<WorkId, ViewerId>>}
  /\ mode = "simplified"
  /\ currentItem = Null
  /\ display = "empty"
  /\ toolNodes = <<>>
  /\ toolNodeCounter = 0
  /\ tools = [t \in ToolIds |->
                IF t = DragTool
                THEN [NoTool EXCEPT !.kind = "ragdoll", !.active = TRUE,
                                    !.viewerNode = TRUE, !.ragdoll = TRUE,
                                    !.canvas = TRUE, !.subscribed = TRUE]
                ELSE NoTool]
  /\ timers = [t \in ToolIds |-> 0]
  /\ frames = [t \in ToolIds |-> 0]
  /\ toolMap = <<>>
  /\ sourceImage = Null
  /\ currentImageData = <<>>
  /\ surface = <<>>
  /\ isConnected = FALSE
  /\ jobs = <<>>
  /\ pending = <<>>
  /\ fetches = <<>>
  /\ raised = {}
  /\ points \in DragPoints
  /\ sticks = <<Stick(points, 1, 2, Num(0)), Stick(points, 2, 3, Num(0))>>
  /\ cache = <<>>
  /\ canvas = NoCanvas
  /\ dragging = 0
  /\ hashing = NoCall
  /\ lastOp = Op("figure", 0, Null, <<>>)
  /\ lastCompleted = [path |-> Null, overtaken |-> FALSE]

DragOps == {"figure", "pointerdown", "pointermove", "pointerup", "frame"}

PointerDown(pos) ==
  /\ lastOp.op \in DragOps
  /\ Commit(mousedownAt(Cur, DragTool, pos),
            Op("pointerdown", lastOp.a, pos, <<>>))

PointerMove(pos) ==
  /\ lastOp.op \in DragOps
  /\ Commit(mousemoveAt(Cur, DragTool, pos),
            Op("pointermove", lastOp.a, pos, <<>>))

PointerUp ==
  /\ lastOp.op \in DragOps
  /\ Commit(mouseupAt(Cur, DragTool), Op("pointerup", lastOp.a, Null, <<>>))

\* RagdollTool.process: this.ragdoll.update(dt, this.gravity, bounds)
Frame(dt) ==
  /\ lastOp.op \in DragOps
  /\ lastOp.a < MaxSteps
  /\ \A i \in DOMAIN points :
       /\ points[i].y[2] <= MaxDenominator /\ points[i].oldY[2] <= MaxDenominator
  /\ Commit([Cur EXCEPT !.points =
                Ragdoll_update(points, sticks, dt, Gravity,
                               [width |-> Num(100), height |-> Num(100)])],
            Op("frame", lastOp.a + 1, dt, <<>>))

NextDrag ==
  \/ \E pos \in Pointers : PointerDown(pos)
  \/ \E pos \in Pointers : PointerMove(pos)
  \/ PointerUp
  \/ \E dt \in Dts : Frame(dt)

SpecDrag == InitDrag /\ [][NextDrag]_vars

\* ---- SmudgeTool.hashImageData on its own, one pass of its loop at a time:
\* buffers of 1, 2, 24, 25 and 26 pixels, black and transparent or coloured
\* from a first byte of 0 on.
HashLengths == {4, 8, 96, 100, 104}
HashInputs ==
  {[i \in 1..n |-> ((i - 1) * fill) % 256] : n \in HashLengths, fill \in {0, 7}}

InitHash ==
  /\ nodes = <<<<WorkId, WorkId>>, <<ViewerId, ViewerId>>>>
  /\ connections = <<<<WorkId, ViewerId>>>>
  /\ selectedItem = Null
  /\ manifest = <<Manifest>>
  /\ currentImageIndex = 0
  /\ listeners = <<>>
  /\ calls = <<>>
  /\ emblems = {<<WorkId, ViewerId>>}
  /\ mode = "simplified"
  /\ currentItem = Null
  /\ display = "empty"
  /\ toolNodes = <<>>
  /\ toolNodeCounter = 0
  /\ tools = [t \in ToolIds |-> NoTool]
  /\ timers = [t \in ToolIds |-> 0]
  /\ frames = [t \in ToolIds |-> 0]
  /\ toolMap = <<>>
  /\ sourceImage = Null
  /\ currentImageData = <<>>
  /\ surface = <<>>
  /\ isConnected = FALSE
  /\ jobs = <<>>
  /\ pending = <<>>
  /\ fetches = <<>>
  /\ raised = {}
  /\ points = <<>>
  /\ sticks = <<>>
  /\ cache = <<>>
  /\ canvas = NoCanvas
  /\ dragging = 0
  /\ hashing \in {hashImageDataCall(data) : data \in HashInputs}
  /\ lastOp = Op("hashImageData", Null, Null, <<>>)
  /\ lastCompleted = [path |-> Null, overtaken |-> FALSE]

HashIteration ==
  /\ lastOp.op = "hashImageData"
  /\ ~hashing.returned
  /\ Commit([Cur EXCEPT !.hashing = hashImageDataIteration(@)],
            Op("hashImageData", Null, Null, <<>>))

SpecHash == InitHash /\ [][HashIteration]_vars
\* the thread that runs the loop goes on running it
SpecHashFair == SpecHash /\ WF_vars(HashIteration)

\* ---- Tools inserted while an item is displayed: a single image or a folder
\* is selected, the carousel moves through the folder, and a load ends when
\* its image is decoded, or fails when its URL is no image
InsertItems == {"A", "F"}
NextInsert ==
  \/ \E item \in InsertItems : SelectItem(item)
  \/ \E e \in emblems : currentItem # Null /\ EmblemClick("invert", e, Null)
  \/ \E id \in ToolIds : CloseTool(id, Null)
  \/ mode = "simplified" /\ ToggleMode(Null)
  \/ CarouselPrev
  \/ CarouselNext
  \/ ImageLoaded(1, Null)
  \/ pending # <<>> /\ pending[1].path = Undefined /\ ImageFailed(1)
  \/ Microtask(Null)

SpecInsert == InitFolder /\ [][NextInsert]_vars

\* ---- Info overlays while the visitor goes from item to item: info tools,
\* fetches that succeed, in any order
NextReselect ==
  \/ \E item \in Items : SelectItem(item)
  \/ \E e \in emblems : EmblemClick("info", e, Null)
  \/ \E id \in ToolIds : CloseTool(id, Null)
  \/ mode = "simplified" /\ ToggleMode(Null)
  \/ \E i \in DOMAIN fetches : FetchSettled(i, TRUE, Null)
  \/ ImageLoaded(1, Null)
  \/ Microtask(Null)

SpecReselect == Init /\ [][NextReselect]_vars

\* ---- The pipeline is disposed of by its owner: item "B", one tool at a
\* time, of every kind, and calls of RenderPipeline.cleanup
PipelineCleanup ==
  /\ Idle
  /\ Commit(RenderPipeline_cleanup(Cur), Op("pipelineCleanup", Null, Null, <<>>))

NextDispose ==
  \/ currentItem = Null /\ SelectItem("B")
  \/ \E toolType \in ToolKinds, e \in emblems :
       toolNodes = <<>> /\ EmblemClick(toolType, e, Null)
  \/ \E id \in ToolIds : CloseTool(id, Null)
  \/ mode = "simplified" /\ ToggleMode(Null)
  \/ ImageLoaded(1, Null)
  \/ Microtask(Null)
  \/ PipelineCleanup

SpecDispose == Init /\ [][NextDispose]_vars

\* ------------------------------------------------------------------ claims
\* C1: after any sequence of connectNodes, disconnectNodes and removeNode
\* calls the connections hold at most one pair per source id, and right
\* after connectNodes(a, c) the pair (a, c) is present and no other pair
\* with source a is (so an earlier (a, b) is gone).
C1_OneEdgePerSource ==
  /\ \A i, j \in DOMAIN connections :
       connections[i][1] = connections[j][1] => i = j
  /\ lastOp.op = "connectNodes" =>
       /\ <<lastOp.a, lastOp.b>> \in Range(connections)
       /\ \A e \in Range(connections) : e[1] = lastOp.a => e[2] = lastOp.b

\* connectNodes(a, c) has just run on a store that held (a, b), b # c
C1_Witness ==
  /\ lastOp.op = "connectNodes"
  /\ \E e \in Range(lastOp.pre) : e[1] = lastOp.a /\ e[2] # lastOp.b

\* C2: a removeNode(x) step leaves no pair with x as source or destination
\* and keeps every pair that did not touch x.
C2_RemoveNodeCascade ==
  [][lastOp'.op = "removeNode" =>
       LET x == lastOp'.a
       IN /\ \A e \in Range(connections') : e[1] # x /\ e[2] # x
          /\ \A e \in Range(connections) :
               (e[1] # x /\ e[2] # x) => e \in Range(connections')]_vars

\* removeNode(x) has just run on a store with a pair leaving x, a pair
\* entering x and a pair that does not touch x
C2_Witness ==
  /\ lastOp.op = "removeNode"
  /\ \E e \in Range(lastOp.pre) : e[1] = lastOp.a
  /\ \E e \in Range(lastOp.pre) : e[2] = lastOp.a /\ e[1] # lastOp.a
  /\ connections # <<>>

\* C3: the resolved tool order holds exactly the registered tools from which
\* the viewer is reachable along the edges, each once, upstream first (a
\* tool farther from the viewer comes earlier), whatever the registration
\* order in toolMap is.
C3_ResolvedOrderFollowsPath ==
  LET r == getToolsInOrder(Cur)
      E == Range(connections)
      \* up[n]: the nodes from which the viewer is reached in at most n edges
      up[n \in 0..Len(connections)] ==
        IF n = 0 THEN {ViewerId}
        ELSE up[n - 1] \cup {e[1] : e \in {d \in E : d[2] \in up[n - 1]}}
      dist(t) == CHOOSE n \in 0..Len(connections) :
                   t \in up[n] /\ \A m \in 0..(n - 1) : t \notin up[m]
  IN /\ Range(r) = Range(toolMap) \cap up[Len(connections)]
     /\ \A i, j \in DOMAIN r : i < j => dist(r[i]) > dist(r[j])

\* two tools in a chain whose upstream tool was registered second
C3_Witness ==
  LET r == getToolsInOrder(Cur)
  IN /\ Len(r) = 2
     /\ r # toolMap
     /\ <<WorkId, r[1]>> \in Range(connections)
     /\ <<r[1], r[2]>> \in Range(connections)
     /\ <<r[2], ViewerId>> \in Range(connections)

\* C4: after a tool has been inserted on an existing edge fromId -> toId, a
\* new tool node exists, the edges are the former ones without
\* fromId -> toId plus fromId -> new and new -> toId.
C4_InsertBetween ==
  (lastOp.op = "insert" /\ <<lastOp.a, lastOp.b>> \in Range(lastOp.pre)) =>
    LET new == ToolNodeId(toolNodeCounter - 1)
    IN /\ MapHas(nodes, new)
       /\ new \in Range(toolNodes)
       /\ \A e \in Range(lastOp.pre) : e[1] # new /\ e[2] # new
       /\ <<lastOp.a, lastOp.b>> \notin Range(connections)
       /\ Range(connections) =
            (Range(lastOp.pre) \ {<<lastOp.a, lastOp.b>>})
              \cup {<<lastOp.a, new>>, <<new, lastOp.b>>}
       /\ Len(connections) = Len(lastOp.pre) + 1

\* a tool has just been inserted on one edge of a graph that has other edges
C4_Witness ==
  /\ lastOp.op = "insert"
  /\ <<lastOp.a, lastOp.b>> \in Range(lastOp.pre)
  /\ Len(lastOp.pre) >= 2
  /\ Len(connections) = Len(lastOp.pre) + 1

\* C5: after the removal of a tool node t that had an incoming edge p -> t
\* and an outgoing edge t -> s, t is no node and no tool node, no edge
\* touches t, p -> s exists, the tool is out of the pipeline and inactive,
\* and the other edges are the former ones.
C5_RemoveToolNode ==
  lastOp.op = "remove" =>
    LET t == lastOp.a
        ins == {e \in Range(lastOp.pre) : e[2] = t}
        outs == {e \in Range(lastOp.pre) : e[1] = t}
    IN (ins # {} /\ outs # {}) =>
         /\ ~MapHas(nodes, t)
         /\ t \notin Range(toolNodes)
         /\ t \notin Range(toolMap)
         /\ ~tools[t].active
         /\ \A e \in Range(connections) : e[1] # t /\ e[2] # t
         /\ Range(connections) =
              (Range(lastOp.pre) \ (ins \cup outs))
                \cup {<<p[1], q[2]>> : p \in ins, q \in outs}
         /\ Len(lastOp.pre) = 2 => connections = <<<<WorkId, ViewerId>>>>

\* the first of two chained tools has just been removed
C5_Witness ==
  /\ lastOp.op = "remove"
  /\ <<WorkId, lastOp.a>> \in Range(lastOp.pre)
  /\ \E e \in Range(lastOp.pre) : e[1] = lastOp.a /\ e[2] # ViewerId
  /\ Len(connections) = 2
  /\ tools[lastOp.a].kind # "none"

\* C6: when the continuation of a render() invocation is about to handle an
\* exception of one of its tools and a later tool follows, the buffer the
\* next tool will be given (currentImageData) is the buffer the invocation
\* held when it called the failing tool.
C6_FailedToolPassesHeldBuffer ==
  (/\ jobs # <<>>
   /\ Head(jobs).res.t = "throw"
   /\ Head(jobs).i < Len(Head(jobs).tools)) =>
    currentImageData = Head(jobs).held

C9_OneRenderAtATime == Len(jobs) <= 1

\* C10: once a load has completed, the source image is that of the load that
\* completed last, and the surface, the current buffer and every buffer a
\* suspended render() holds were drawn from that image.
C10_LastCompletedLoadWins ==
  lastCompleted.path # Null =>
    /\ sourceImage = lastCompleted.path
    /\ surface # <<>> /\ surface[1] = sourceImage
    /\ currentImageData # <<>> /\ currentImageData[1] = sourceImage
    /\ \A k \in DOMAIN jobs :
         /\ jobs[k].src = sourceImage
         /\ jobs[k].held # <<>> /\ jobs[k].held[1] = sourceImage
         /\ jobs[k].res.t = "data" =>
              jobs[k].res.data # <<>> /\ jobs[k].res.data[1] = sourceImage

\* loadImage("A") then loadImage("B") were issued, "B" completed first and
\* "A" last, and the frame of "A" has been rendered to the end
C10_Witness ==
  /\ lastCompleted.path = "A"
  /\ lastCompleted.overtaken
  /\ currentItem = "B"
  /\ pending = <<>>
  /\ jobs = <<>>
  /\ hasTools(Cur)
  /\ surface = <<"A", "invert">>


C12_StrokesSurviveRender ==
  \A t \in ToolIds :
    (tools[t].kind = "smudge" /\ tools[t].canvas /\ tools[t].brushPaint
       /\ jobs = <<>>)
    => "paint" \in Range(SmudgeSurface(Cur, t))

\* C13: when SmudgeTool.process is called with an image that differs from
\* the image of its previous call, then after the call the tool's canvas
\* holds the new image and the brush is empty.
C13_ChangedUpstreamResets ==
  [][\A t \in ToolIds :
       (/\ tools[t].kind = "smudge"
        /\ tools[t].lastImageData # <<>>
        /\ tools'[t].lastImageData # <<>>
        /\ tools'[t].lastImageData # tools[t].lastImageData
        /\ Pixels(tools'[t].lastImageData) # Pixels(tools[t].lastImageData))
       => /\ (IF tools'[t].detached THEN tools'[t].pixels ELSE surface')
               = tools'[t].lastImageData
          /\ ~tools'[t].brushPaint]_vars

\* C14: InvertTool.process returns a buffer of the same length in which
\* every R, G and B byte x has become 255 - x and every alpha byte is
\* copied, and leaves the buffer it was given as it was; applied to its own
\* result it gives back the original buffer exactly.
C14_InvertIsSelfInverse ==
  lastOp.op = "invertPixels" =>
    /\ lastOp.a = 1 =>
         /\ Len(surface) = Len(currentImageData)
         /\ \A i \in DOMAIN currentImageData :
              surface[i] = IF i % 4 = 0 THEN currentImageData[i]
                           ELSE 255 - currentImageData[i]
    /\ lastOp.a = 2 => surface = currentImageData
    /\ currentImageData \in InvertInputs

\* a two-pixel buffer has been inverted twice
C14_Witness ==
  /\ lastOp.op = "invertPixels" /\ lastOp.a = 2
  /\ Len(currentImageData) = 8
  /\ currentImageData[1] = 0 /\ currentImageData[4] = 255

\* C15: a slideshow that is started while one of its items is displayed
\* starts at that item, and every timer tick of a slideshow over n
\* single-image items moves it from position j to (j + 1) mod n and selects
\* and displays the item there; so k ticks after a start on item i select
\* item (i + k) mod n, and over [A, B] a tick on B wraps back to A.
C15_TickSelectsNext ==
  [][\A t \in ToolIds :
       /\ (timers'[t] > timers[t] /\ currentItem' # Null
           /\ currentItem' \in Range(tools'[t].items))
          => tools'[t].items[tools'[t].currentItemIndex + 1] = currentItem'
       /\ (lastOp'.op = "tick" /\ lastOp'.a = t /\ Len(tools[t].items) > 0)
          => LET n == Len(tools[t].items)
                 next == (tools[t].currentItemIndex + 1) % n
             IN /\ tools'[t].items = tools[t].items
                /\ tools'[t].currentItemIndex = next
                /\ selectedItem' = tools[t].items[next + 1]
                /\ currentItem' = tools[t].items[next + 1]]_vars

\* a tick of a slideshow over [A, B] has wrapped from B back to A
C15_Witness ==
  /\ lastOp.op = "tick"
  /\ tools[lastOp.a].items = <<"A", "B">>
  /\ tools[lastOp.a].currentItemIndex = 0
  /\ selectedItem = "A" /\ currentItem = "A"

\* C16: on every tick of a running slideshow while a composite item of m
\* sub-images is displayed, the displayed sub-image index goes up by exactly
\* one if a later sub-image exists, another item is displayed only if the
\* last sub-image was displayed, and the index of a displayed composite item
\* stays within 0..m-1.
C16_SubImagesInOrder ==
  [][\A t \in ToolIds :
       (/\ lastOp'.op = "tick" /\ lastOp'.a = t
        /\ tools[t].viewerNode /\ Len(tools[t].items) > 0
        /\ currentItem # Null /\ IsFolder(currentItem))
       => LET m == Len(Images(currentItem))
          IN /\ currentImageIndex < m - 1
                => (currentItem' = currentItem
                    /\ currentImageIndex' = currentImageIndex + 1)
             /\ currentItem' # currentItem => currentImageIndex = m - 1
             /\ IsFolder(currentItem')
                => currentImageIndex' \in 0..(Len(Images(currentItem')) - 1)]_vars

\* C17: when emit() has returned, the callbacks it has invoked are exactly
\* the callbacks that were registered for the event when it was called, each
\* once and in registration order, also when callbacks register or
\* unregister callbacks while they run.
C17_EmitCallsAllRegistered ==
  lastOp.op = "emit" => calls = lastOp.a

\* C18: a cleanup() of a tool raises no error, whether the tool has
\* allocated anything or not; a cleanup() that follows a cleanup() of the
\* same tool changes nothing; and after the removal of a tool node, in which
\* the tool's cleanup runs through the deactivation and once more directly,
\* the tool is as one more cleanup() would leave it.
C18_CleanupIdempotent ==
  [][/\ \A t \in ToolIds :
          (lastOp'.op = "cleanup" /\ lastOp'.a = t)
          => /\ raised' = raised
             /\ (lastOp.op = "cleanup" /\ lastOp.a = t)
                => (tools' = tools /\ timers' = timers /\ frames' = frames)
     /\ \A t \in ToolIds :
          (lastOp'.op = "remove" /\ lastOp'.a = t /\ tools[t].kind # "none"
           /\ t \in Range(toolNodes))
          => LET after == [Cur EXCEPT !.tools = tools', !.timers = timers',
                                      !.frames = frames']
             IN /\ raised' = raised
                /\ cleanup(after, t).tools = tools'
                /\ cleanup(after, t).timers = timers'
                /\ cleanup(after, t).frames = frames']_vars

\* a tool that had started its timer, its frame loop or taken its canvas has
\* been cleaned up twice in a row
C18_Witness ==
  /\ lastOp.op = "cleanup"
  /\ tools[lastOp.a].kind \in {"slideshow", "ragdoll", "smudge"}
  /\ ~tools[lastOp.a].interval /\ ~tools[lastOp.a].canvas
  /\ tools[lastOp.a].active

\* C19: for every edge set of the store, cycles through the viewer included,
\* getToolsInOrder ends with a list of registered tools in which no tool is
\* twice, and so has every list that a render() has resolved.
C19_OrderHasNoDuplicates ==
  LET NoDuplicates(seq) ==
        \A i \in DOMAIN seq : \A j \in DOMAIN seq : seq[i] = seq[j] => i = j
      orderedTools == getToolsInOrder(Cur)
  IN /\ NoDuplicates(orderedTools)
     /\ Range(orderedTools) \subseteq Range(toolMap)
     /\ lastOp.chain # NoChain => NoDuplicates(lastOp.chain)

\* a render has resolved a tool on a cycle through the viewer
C19_Witness ==
  /\ lastOp.op = "loaded"
  /\ MapHas(connections, ViewerId)
  /\ MapGet(connections, ViewerId) = ToolNodeId(0)
  /\ MapHas(connections, ToolNodeId(0))
  /\ MapGet(connections, ToolNodeId(0)) = ViewerId
  /\ lastOp.chain = <<ToolNodeId(0)>>

C21_DuplicateAddRejected ==
  [][(lastOp'.op = "addNode" /\ MapHas(nodes, lastOp'.a))
     => /\ nodes' = nodes
        /\ connections' = connections
        /\ "nodeAdded" \notin Range(lastOp'.emitted)
        /\ raised' # raised]_vars

\* C22: a removeNode emits nodeRemoved and then, if an edge touched the node,
\* connectionChanged, and nothing else.
C22_RemoveNodeEvents ==
  lastOp.op = "removeNode"
  => lastOp.emitted = IF lastOp.pre # <<>>
                      THEN <<"nodeRemoved", "connectionChanged">>
                      ELSE <<"nodeRemoved">>

\* C23: the insertion of an info tool and the settling of its fetch raise
\* nothing; when the displayed item has no info path the text is the
\* placeholder "No info available" and the tool is not loading; when the fetch
\* has failed the text is the placeholder "Info file not found"; and when a
\* fetch has settled the tool is not loading.
C23_InfoLoadNeverRaises ==
  [][/\ lastOp'.op = "fetched"
        => /\ raised' = raised
           /\ ~tools'[lastOp'.a].loading
           /\ tools'[lastOp'.a].infoText # Null
           /\ lastOp'.b = "failed"
              => tools'[lastOp'.a].infoText = "Info file not found"
     /\ (lastOp'.op = "insert" /\ toolNodeCounter' # toolNodeCounter)
        => LET t == ToolNodeId(toolNodeCounter)
           IN /\ raised' = raised
              /\ currentItem = Null => ~tools'[t].loading
              /\ (currentItem # Null /\ ~HasInfoPath(currentItem))
                 => (tools'[t].infoText = "No info available"
                     /\ ~tools'[t].loading)
              /\ (currentItem # Null /\ HasInfoPath(currentItem))
                 => (tools'[t].loading
                     /\ \E i \in DOMAIN fetches' : fetches'[i][1] = t)]_vars

\* the fetch of an info tool has failed
C23_Witness ==
  /\ lastOp.op = "fetched" /\ lastOp.b = "failed"
  /\ tools[lastOp.a].kind = "info"
  /\ tools[lastOp.a].infoText = "Info file not found"
  /\ ~tools[lastOp.a].loading

\* the distance between the two ends of the stick st among the points ps
StickDistance(ps, st) ==
  sqrtOfSquares(sub(ps[st.p2].x, ps[st.p1].x), sub(ps[st.p2].y, ps[st.p1].y))
PointFinite(p) == isFinite(p.x) /\ isFinite(p.y)

\* C24: relaxing a stick whose two ends are at the same position divides by
\* nothing: no error is raised and both ends keep their coordinates, which
\* stay finite
C24_ZeroDistanceSkipped ==
  [][(lastOp'.op = "stick" /\ StickDistance(points, sticks[1]) = Num(0)) =>
       /\ raised' = raised
       /\ points' = points
       /\ \A i \in DOMAIN points' : PointFinite(points'[i])]_vars

absolute(a) == IF a[1] < 0 THEN neg(a) ELSE a

\* C27: a relaxation of a single stick whose ends are apart and not both
\* pinned leaves |distance - length| no larger than it was and the sign of
\* distance - length as it was, with both ends unpinned and with one pinned
C27_RelaxationNoOvershoot ==
  [][(/\ lastOp'.op = "stick"
      /\ ~(points[1].pinned /\ points[2].pinned)
      /\ isFinite(StickDistance(points, sticks[1]))
      /\ StickDistance(points, sticks[1]) # Num(0)) =>
       LET before == sub(StickDistance(points, sticks[1]), sticks[1].length)
           after == sub(StickDistance(points', sticks[1]), sticks[1].length)
       IN /\ isFinite(after)
          /\ ~gt(absolute(after), absolute(before))
          /\ ~lt(mul(before, after), Num(0))]_vars
\* a stick with one end pinned has been relaxed twice and is still off its
\* rest length
C27_Witness ==
  /\ lastOp.op = "stick" /\ lastOp.a = 2
  /\ points[1].pinned # points[2].pinned
  /\ isFinite(StickDistance(points, sticks[1]))
  /\ StickDistance(points, sticks[1]) # sticks[1].length

\* C25: no physics step (integration, boundary clamping, relaxation of a
\* stick, or the complete step made of them) changes the position of a
\* pinned point
C25_PinnedNeverMoves ==
  [][lastOp'.op \in {"update", "constrain", "relax", "ragdoll"} =>
       \A i \in DOMAIN points :
         points[i].pinned =>
           /\ points'[i].pinned
           /\ points'[i].x = points[i].x
           /\ points'[i].y = points[i].y]_vars
\* a complete step has moved the foot of a figure whose knee is pinned
C25_Witness ==
  /\ lastOp.op = "ragdoll"
  /\ points[2].pinned /\ ~points[3].pinned
  /\ points[3].y # points[3].oldY
  /\ PointFinite(points[3])

\* a <= b, false when either is NaN
le(a, b) == ~isNaN(a) /\ ~isNaN(b) /\ (a = b \/ lt(a, b))

\* C26: after every complete physics step each unpinned point has x in
\* [radius, width - radius] and y in [radius, height - radius], the bounds
\* being at least 2 * radius wide and high
C26_StepKeepsPointsInBounds ==
  [][lastOp'.op = "ragdoll" =>
       \A i \in DOMAIN points' :
         LET p == points'[i]
             bounds == lastOp'.b
         IN (/\ ~p.pinned
             /\ le(mul(Num(2), p.radius), bounds.width)
             /\ le(mul(Num(2), p.radius), bounds.height)) =>
               /\ le(p.radius, p.x) /\ le(p.x, sub(bounds.width, p.radius))
               /\ le(p.radius, p.y) /\ le(p.y, sub(bounds.height, p.radius))]_vars

\* C28: once the removal of a tool node has finished (removeTool and the
\* deactivation of its tool), a viewer that displays an item shows the plain
\* image when no tool remains registered, and the canvas when a tool remains
\* and a source image is loaded
C28_RemovalLeavesImageOrCanvas ==
  (lastOp.op = "remove" /\ currentItem # Null) =>
     /\ toolMap = <<>> => display = "image"
     /\ (toolMap # <<>> /\ sourceImage # Null) => display = "canvas"

\* C29: a mouse-down, mouse-move or mouse-up that arrives after the cleanup
\* of a Ragdoll or Smudge tool (which has set the tool's canvas to null)
\* finds no handler of that tool on the canvas: it changes no tool and
\* raises no error
C29_CleanupReleasesHandlers ==
  [][(/\ lastOp'.op \in {"mousedown", "mousemove", "mouseup"}
      /\ tools[lastOp'.a].kind \in {"ragdoll", "smudge"}
      /\ ~tools[lastOp'.a].canvas) =>
       /\ tools' = tools
       /\ raised' = raised]_vars

\* C30: the line-wrap cache never holds more than CacheLimit entries, and a
\* call of wrapText that finds the cache full and inserts an entry evicts
\* the entry inserted longest ago, and no other
C30_CacheBoundedOldestEvicted ==
  /\ [](Len(cache) <= CacheLimit)
  /\ [][(lastOp'.op = "wrapText" /\ Len(cache) = CacheLimit
           /\ ~Cached(lastOp'.a)) =>
          LET oldest == CHOOSE i \in DOMAIN cache :
                          \A j \in DOMAIN cache : cache[i][2].at <= cache[j][2].at
          IN /\ \A j \in DOMAIN cache :
                  j # oldest => \E k \in DOMAIN cache' : cache'[k] = cache[j]
             /\ ~\E k \in DOMAIN cache' : cache'[k] = cache[oldest]
             /\ \E k \in DOMAIN cache' :
                  cache'[k][1] = CacheKey(TextOf(lastOp'.a), MaxWidth, Font)]_vars
\* the cache is full after an eviction, and holds texts of one line and of
\* two after an evicted text was asked for once more
C30_Witness ==
  /\ lastOp.op = "wrapText"
  /\ Len(cache) = CacheLimit
  /\ lastOp.b.inserted > CacheLimit + 1
  /\ lastOp.a < lastOp.b.texts
  /\ Cached(lastOp.a)
  /\ \E i \in DOMAIN cache : Len(cache[i][2].lines) = 1
  /\ \E i \in DOMAIN cache : Len(cache[i][2].lines) = 2

\* the size of an image scaled by min(w / width, h / height, 1), rounded down
ScaledToFit(image, w, h) ==
  IF w >= image.width /\ h >= image.height
  THEN [width |-> image.width, height |-> image.height]
  ELSE IF w * image.height <= h * image.width
       THEN [width |-> (image.width * w) \div image.width,
             height |-> (image.height * w) \div image.width]
       ELSE [width |-> (image.width * h) \div image.height,
             height |-> (image.height * h) \div image.height]

\* C31 as stated: every render() sizes the canvas to the source scaled by
\* min(boxWidth / srcWidth, boxHeight / srcHeight, 1), whatever the content
\* box is, so the canvas exceeds neither the source nor the content box.
C31_TargetFitsContentBox ==
  lastOp.op = "renderSize" =>
    /\ canvas = ScaledToFit(lastOp.a, lastOp.b.clientWidth, lastOp.b.clientHeight)
    /\ canvas.width <= lastOp.b.clientWidth
    /\ canvas.height <= lastOp.b.clientHeight
    /\ canvas.width <= lastOp.a.width
    /\ canvas.height <= lastOp.a.height

\* C31, amended: when the content box has a positive width the canvas is the
\* source scaled by min(boxWidth / srcWidth, boxHeight / srcHeight, 1) and
\* exceeds neither the source nor the box; when the box has width 0 the
\* source is scaled the same way into 700 x 450 instead. One factor is
\* applied to both dimensions and the source is never scaled up.
C31_TargetFitsBoxOrMaximum ==
  lastOp.op = "renderSize" =>
    LET image == lastOp.a
        box == lastOp.b
    IN /\ canvas.width <= image.width
       /\ canvas.height <= image.height
       /\ box.clientWidth > 0 =>
            /\ canvas = ScaledToFit(image, box.clientWidth, box.clientHeight)
            /\ canvas.width <= box.clientWidth
            /\ canvas.height <= box.clientHeight
       /\ box.clientWidth = 0 =>
            /\ canvas = ScaledToFit(image, 700, 450)
            /\ canvas.width <= 700
            /\ canvas.height <= 450
\* an image wider than its box has been scaled down to the width of the box
C31_Witness ==
  /\ lastOp.op = "renderSize"
  /\ lastOp.b.clientWidth > 0
  /\ canvas.width = lastOp.b.clientWidth
  /\ canvas.width < lastOp.a.width
  /\ canvas.height < lastOp.a.height
  /\ canvas.height >= 1
  /\ canvas.height < lastOp.b.clientHeight

\* C37: a render() of a source image of positive width and height into a
\* content box of positive width and height sizes the canvas to at least
\* 1 x 1 and raises nothing when it reads the pixels back.
C37_TargetNeverEmpty ==
  [][(/\ lastOp'.op = "renderSize"
      /\ lastOp'.a.width > 0 /\ lastOp'.a.height > 0
      /\ lastOp'.b.clientWidth > 0 /\ lastOp'.b.clientHeight > 0)
     => /\ canvas'.width >= 1
        /\ canvas'.height >= 1
        /\ "render" \in raised' => "render" \in raised]_vars

\* C32: when a render() resumes after a tool's transform, a managed result
\* (null) makes the buffer re-read from the canvas the current buffer, and a
\* returned buffer is adopted as the current buffer; with a tool left in the
\* chain that buffer is handed to the next tool, a returned buffer having
\* been written to the canvas first (seen on the canvas when the next tool
\* does not draw itself); after the last tool the current buffer is on the
\* canvas.  lastOp.a is the kind of result the resumed render() was given.
C32_ManagedOrAdopted ==
  [][(lastOp'.op = "microtask" /\ lastOp'.a # "throw") =>
       LET job == Head(jobs)
           isLastTool == job.i = Len(job.tools)
           buffer == IF job.res.t = "null" THEN surface ELSE job.res.data
       IN /\ job.res.t = lastOp'.a
          /\ ~isLastTool =>
               /\ jobs' # <<>>
               /\ jobs'[Len(jobs')].i = job.i + 1
               /\ jobs'[Len(jobs')].held = buffer
               /\ (/\ job.res.t = "data"
                   /\ tools[job.tools[job.i + 1]].kind = "invert")
                  => surface' = job.res.data
          /\ isLastTool =>
               /\ Len(jobs') = Len(jobs) - 1
               /\ currentImageData' = buffer
               /\ surface' = buffer]_vars
\* a managed result of the first tool has been followed by a second tool,
\* which was handed the pixels of the canvas
C32_Witness ==
  /\ lastOp.op = "microtask"
  /\ lastOp.a = "null"
  /\ jobs # <<>>
  /\ jobs[Len(jobs)].i = 2
  /\ jobs[Len(jobs)].held = surface
  /\ surface # <<>>

\* C33: a pointer-down starts a drag only on a particle that is not pinned
\* and contains the pointer; while the drag lasts each pointer-move puts the
\* particle and its previous position at the pointer, and a step of the
\* simulation does not displace the particle; with no drag (after
\* pointer-up, or when pointer-down hit no particle) a pointer-move changes
\* no particle.
C33_DragHoldsParticle ==
  [][LET held == tools[DragTool].isMouseDown
         pos == lastOp'.b
     IN /\ lastOp'.op = "pointerdown" =>
             /\ points' = points
             /\ (~held /\ tools'[DragTool].isMouseDown) =>
                  /\ dragging' # 0
                  /\ ~points[dragging'].pinned
                  /\ contains(points[dragging'], pos.x, pos.y)
             /\ (\A i \in DOMAIN points :
                   points[i].pinned \/ ~contains(points[i], pos.x, pos.y))
                => tools'[DragTool].isMouseDown = held
        /\ (lastOp'.op = "pointermove" /\ held) =>
             /\ points'[dragging].x = pos.x /\ points'[dragging].y = pos.y
             /\ points'[dragging].oldX = pos.x /\ points'[dragging].oldY = pos.y
             /\ \A i \in DOMAIN points : i # dragging => points'[i] = points[i]
        /\ (lastOp'.op = "pointermove" /\ ~held) => points' = points
        /\ lastOp'.op = "pointerup" =>
             /\ ~tools'[DragTool].isMouseDown
             /\ points' = points
        /\ (lastOp'.op = "frame" /\ held) =>
             /\ points'[dragging].x = points[dragging].x
             /\ points'[dragging].y = points[dragging].y]_vars

\* the nodes met on the way along the edges from id, n edges at most, up to
\* a node without an edge
RECURSIVE WalkFrom(_, _)
WalkFrom(id, n) ==
  LET out == {i \in DOMAIN connections : connections[i][1] = id}
  IN IF n = 0 \/ out = {} THEN <<id>>
     ELSE <<id>> \o WalkFrom(connections[CHOOSE i \in out : TRUE][2], n - 1)

\* the edges are those of one path from work through every tool node, once
\* each, to the viewer
OneSimplePath ==
  LET path == WalkFrom(WorkId, Len(toolNodes) + 1)
  IN /\ Len(connections) = Len(toolNodes) + 1
     /\ Len(path) = Len(toolNodes) + 2
     /\ path[Len(path)] = ViewerId
     /\ {path[i] : i \in 2..(Len(path) - 1)} = Range(toolNodes)
     /\ \A i, j \in DOMAIN path : path[i] = path[j] => i = j
     /\ \A i \in DOMAIN connections :
          \E k \in 1..(Len(path) - 1) :
            connections[i] = <<path[k], path[k + 1]>>

\* C34: whenever no handler is running, after any insertions, removals and
\* mode switches, the edges form one simple path work -> tool nodes ->
\* viewer, and the tools that tool-order resolution returns are the tools
\* registered in the pipeline.
C34_PathAndRegistryAgree ==
  Idle =>
    /\ OneSimplePath
    /\ Range(getToolsInOrder(Cur)) = Range(toolMap)
    /\ Range(toolMap) = Range(toolNodes)
\* two tools stand in the path and are registered
C34_Witness ==
  /\ Idle
  /\ Len(toolNodes) = 2
  /\ OneSimplePath
  /\ Range(getToolsInOrder(Cur)) = Range(toolNodes)
  /\ lastOp.op = "insert"

\* C35: every call of hashImageData on a buffer of positive size returns,
\* buffers of fewer than 100 bytes included.
C35_HashTerminates == <>hashing.returned

\* the media the viewer displays: the item, or the current image of a folder
DisplayedMedia ==
  IF IsFolder(currentItem) THEN Images(currentItem)[currentImageIndex + 1]
  ELSE currentItem

\* C36: with a tool inserted while the viewer displays an item, whenever no
\* image load is pending and no render is running the source image of the
\* pipeline is the media the viewer displays, for single images and for
\* folders at any sub-image.
C36_SourceIsDisplayedMedia ==
  (Idle /\ pending = <<>> /\ toolMap # <<>> /\ currentItem # Null)
    => sourceImage = DisplayedMedia

\* C38: whenever no metadata load is pending and no handler runs, every
\* info tool shows the text of the item that is displayed (the text of its
\* file, or the notice that it has none), and is not loading.
C38_InfoTextOfDisplayedItem ==
  (Idle /\ fetches = <<>> /\ currentItem # Null) =>
    \A t \in Range(toolNodes) :
      tools[t].kind = "info" =>
        /\ ~tools[t].loading
        /\ tools[t].infoText = IF HasInfoPath(currentItem)
                               THEN InfoTextOf(currentItem)
                               ELSE "No info available"

\* C39: a timer tick of a slideshow selects the item that follows, cyclically
\* in the slideshow's items, the item that is selected when the tick runs,
\* whoever selected it.
C39_TickFollowsSelection ==
  [][\A t \in ToolIds :
       (/\ lastOp'.op = "tick" /\ lastOp'.a = t
        /\ Len(tools[t].items) > 0
        /\ selectedItem \in Range(tools[t].items))
       => LET n == Len(tools[t].items)
              k == CHOOSE k \in 1..n : tools[t].items[k] = selectedItem
          IN selectedItem' = tools[t].items[(k % n) + 1]]_vars

\* C40: a call of RenderPipeline.cleanup() with tools registered raises
\* nothing, leaves every registered tool as its cleanup leaves it, and
\* leaves the registry empty and the source image and current buffer
\* cleared.
C40_PipelineCleanupReleasesAll ==
  [][(lastOp'.op = "pipelineCleanup" /\ toolMap # <<>>) =>
       /\ raised' = raised
       /\ \A i \in DOMAIN toolMap :
            tools'[toolMap[i]] = cleanup(Cur, toolMap[i]).tools[toolMap[i]]
       /\ toolMap' = <<>>
       /\ sourceImage' = Null
       /\ currentImageData' = <<>>]_vars

=========================================================================
